---- MODULE Spec2Model ----
(***************************************************************************)
(* BenchPress (llm-eval): the run record store, the eval command and the   *)
(* re-scoring commands (rejudge, deepeval) of src/run.py as a state        *)
(* machine.  One process runs one command at a time; a command is a        *)
(* sequence of steps (one per prompt or candidate, two per save), so that  *)
(* the persisted files can be observed between any two steps.              *)
(***************************************************************************)
EXTENDS Integers, Sequences, FiniteSets, TLC

\* ------------------------------------------------------------------ bounds
\* Number of commands one behaviour runs.
MaxCmds == 2
\* Number of commands one behaviour of the eval scope runs.
MaxEvalCmds == 1
\* Number of commands one behaviour of the configuration scope runs.
MaxConfigCmds == 1
\* Number of commands one behaviour of the concurrent scope runs next to
\* the second invocation.
MaxConcurrentCmds == 1
\* Number of commands one behaviour of the aggregation scope runs.
MaxAggregateCmds == 1
\* Number of commands one behaviour of the ordering scope runs.
MaxOrderCmds == 1
\* Number of commands one behaviour of the listing scope runs.
MaxListCmds == 1
\* Number of commands one behaviour of the scorer scope runs.
MaxScorerCmds == 2
\* Number of commands one behaviour of the category scope runs.
MaxCategoryCmds == 1
\* Number of commands one behaviour of the retry scope runs.
MaxRetryCmds == 2
\* Number of commands one behaviour of the frame scope runs.
MaxFrameCmds == 1
\* Number of collaborator failures (provider exception, judge without a
\* score, failed metric or scorer) one behaviour sees.
MaxFaults == 1

\* ------------------------------------------------------- python-like values
\* Python's None, and a present value.
None == <<>>
Some(x) == <<x>>

\* ------------------------------------------------------------ configuration
\* Result-set names in alphabetical order (sorted() of the file stems).
ModelOrder == <<"a", "b">>
ModelNames == {"a", "b"}
\* config["models"]: the evaluated models and a judge-only model.
ModelsCfg == {"a", "b", "j"}
\* config["judge"]["model"] as set by the operator before a command.
JudgeChoices == {"j", "b"}
\* config["deepeval"]["metrics"].
EnabledMetrics == <<"correctness">>
\* The metric builders score_with_deepeval knows.
MetricBuilders == {"correctness", "coherence", "instruction_following"}
\* One loaded config.yaml.
Configs ==
  { [judge |-> j, deepeval_enabled |-> d, metrics |-> EnabledMetrics,
     keyless |-> {}] :
      j \in JudgeChoices, d \in BOOLEAN }
\* Broken set-ups: a judge that is not among config["models"], and models
\* whose api_key_env names a variable that is not set (cfg.keyless).
BrokenConfigs ==
  { [judge |-> "z", deepeval_enabled |-> FALSE, metrics |-> EnabledMetrics,
     keyless |-> {}] }
  \cup { [judge |-> "j", deepeval_enabled |-> FALSE, metrics |-> EnabledMetrics,
          keyless |-> k] : k \in { {"j"}, {"a"} } }
\* model_cfg["model"], the provider-side identifier.
ApiModel(m) == IF m = "a" THEN "a-v1" ELSE IF m = "b" THEN "b-v1" ELSE "j-v1"

\* ------------------------------------------------------------- the eval set
P1 == [id |-> "P1", category |-> "Coding", difficulty |-> "easy"]
P2 == [id |-> "P2", category |-> "writing", difficulty |-> "Hard"]
Pids == {"P1", "P2"}
\* evals/default.json as found by a command: the full set, or the set after
\* the operator removed P1 from it.
EvalFiles == { <<P1, P2>>, <<P2>> }
\* str.lower() on the strings of the model.
Lower(s) ==
  CASE s = "Coding" -> "coding"
    [] s = "CODING" -> "coding"
    [] s = "Hard" -> "hard"
    [] s = "HARD" -> "hard"
    [] OTHER -> s

\* The --ids / --category / --difficulty arguments of a command.
Filters ==
  { [ids |-> None, categories |-> None, difficulty |-> None],
    [ids |-> <<"P2", "P1">>, categories |-> None, difficulty |-> None],
    [ids |-> <<"P1">>, categories |-> None, difficulty |-> None],
    [ids |-> None, categories |-> <<"CODING">>, difficulty |-> None],
    [ids |-> None, categories |-> None, difficulty |-> <<"hard">>] }

Range(s) == { s[i] : i \in 1..Len(s) }

filter_prompts(prompts, ids, categories, difficulty) ==
  LET byId == IF ids # None
              THEN SelectSeq(prompts, LAMBDA p : p.id \in Range(ids))
              ELSE prompts
      cats == IF categories # None
              THEN { Lower(categories[i]) : i \in 1..Len(categories) }
              ELSE {}
      byCat == IF categories # None
               THEN SelectSeq(byId, LAMBDA p : Lower(p.category) \in cats)
               ELSE byId
      diffs == IF difficulty # None
               THEN { Lower(difficulty[i]) : i \in 1..Len(difficulty) }
               ELSE {}
  IN  IF difficulty # None
      THEN SelectSeq(byCat, LAMBDA p : Lower(p.difficulty) \in diffs)
      ELSE byCat

\* -------------------------------------------------------------- run entries
\* An entry is a JSON object: `keys` is the set of keys it holds; a field
\* whose key is not in `keys` holds None as a placeholder.
EntryKeysOk ==
  { "timestamp", "api_model", "content", "latency_s", "input_tokens",
    "output_tokens", "auto_checks", "judge_score", "judge_rationale",
    "judge_model" }
EntryKeysErr ==
  { "timestamp", "api_model", "content", "latency_s", "error", "auto_checks",
    "judge_score", "judge_rationale", "judge_model" }
DeepevalKeys == { "deepeval_scores", "deepeval_avg" }

\* latest_run's {} for a prompt without runs.
EmptyRun ==
  [ keys |-> {}, timestamp |-> 0, api_model |-> "", content |-> "",
    latency_s |-> 0, input_tokens |-> None, output_tokens |-> None,
    auto_checks |-> None, judge_score |-> None, judge_rationale |-> "",
    judge_model |-> None, deepeval_scores |-> None, deepeval_avg |-> None,
    error |-> None ]

\* dict.get(k): None when the key is missing.
Get(run, k) == IF k \in run.keys THEN run[k] ELSE None
\* dict.get(k, d).
GetOr(run, k, d) == IF k \in run.keys THEN run[k] ELSE d

\* Python truthiness of an optional string / optional mapping.
TruthyStr(v) == v # None /\ v[1] # ""
TruthyMap(v) == v # None /\ v[1] # <<>>

\* ------------------------------------------------------------ collaborators
\* provider.complete: (content, usage) or an exception carrying str(e).
\* httpx timeouts carry an empty message.
ProviderOk ==
  [ok |-> TRUE, content |-> "r1", input_tokens |-> Some(3),
   output_tokens |-> Some(8), latency_s |-> 2, error |-> ""]
ProviderHttpError ==
  [ok |-> FALSE, content |-> "", input_tokens |-> None,
   output_tokens |-> None, latency_s |-> 1, error |-> "HTTP 500"]
ProviderTimeout ==
  [ok |-> FALSE, content |-> "", input_tokens |-> None,
   output_tokens |-> None, latency_s |-> 1, error |-> ""]
ProviderOutcomes == { ProviderOk, ProviderHttpError, ProviderTimeout }

\* check_response: the universal empty-response check; "r1" is a response
\* on which the type-specific checker raises no flag.
check_response(pmeta, response) ==
  IF response = ""
  THEN [flags |-> <<"EMPTY_RESPONSE">>, auto_scores |-> <<>>, passed |-> FALSE]
  ELSE [flags |-> <<>>, auto_scores |-> <<>>, passed |-> TRUE]

DefaultAutoChecks == [flags |-> <<>>, auto_scores |-> <<>>, passed |-> TRUE]

\* judge_response: {judge_score: int | None, judge_rationale: str}.
JudgeScored == [judge_score |-> Some(4), judge_rationale |-> "good"]
JudgeFailed == [judge_score |-> None, judge_rationale |-> "judge error"]
JudgeOutcomes == { JudgeScored, JudgeFailed }
\* The value standing for "the judge was not called".
NoJudge == [judge_score |-> None, judge_rationale |-> ""]

\* One metric's outcome: a 0-1 score in 1/10000 units, or None on failure.
MetricScores == { Some(8000), None }
\* The outcomes of the metric n: coherence, when it is enabled, scores
\* lower than the others.
MetricScoresOf(n) == IF n = "coherence" THEN { Some(5124), None } ELSE MetricScores

\* round(sum / len, 4) of scores held in 1/10000 units (half to even).
RoundDiv(s, n) ==
  LET q == s \div n
      r == s % n
  IN  IF 2 * r > n \/ (2 * r = n /\ q % 2 = 1) THEN q + 1 ELSE q

RECURSIVE SumValid(_)
SumValid(scores) ==
  IF scores = <<>> THEN 0
  ELSE (IF Head(scores)[2] # None THEN Head(scores)[2][1] ELSE 0)
       + SumValid(Tail(scores))

\* A faulty variant of score_with_deepeval: a failed metric is left out of
\* the mapping.
score_with_deepeval_drop(metrics, outs) ==
  LET known == SelectSeq(metrics, LAMBDA n : n \in MetricBuilders)
      all == [ i \in 1..Len(known) |-> <<known[i], outs[known[i]]>> ]
      scores == SelectSeq(all, LAMBDA kv : kv[2] # None)
      avg == IF scores # <<>>
             THEN Some(RoundDiv(SumValid(scores), Len(scores)))
             ELSE None
  IN  [raised |-> FALSE, deepeval_scores |-> scores, deepeval_avg |-> avg]

\* score_with_deepeval's result for the per-metric outcomes `outs`
\* (a function from metric name to outcome); scores is an ordered mapping,
\* a sequence of <<name, score>> pairs.
score_with_deepeval(metrics, outs) ==
  LET known == SelectSeq(metrics, LAMBDA n : n \in MetricBuilders)
      scores == [ i \in 1..Len(known) |-> <<known[i], outs[known[i]]>> ]
      valid == SelectSeq(scores, LAMBDA kv : kv[2] # None)
      avg == IF valid # <<>>
             THEN Some(RoundDiv(SumValid(valid), Len(valid)))
             ELSE None
  IN  [raised |-> FALSE, deepeval_scores |-> scores, deepeval_avg |-> avg]

\* The adapter's outcomes under `metrics`: a result per combination of
\* metric outcomes, or an exception (deepeval not importable).
DeepevalRaised == [raised |-> TRUE, deepeval_scores |-> <<>>, deepeval_avg |-> None]
DeepevalOutcomes(metrics) ==
  { score_with_deepeval(metrics, outs) :
      outs \in { f \in [Range(metrics) -> MetricScores \cup { Some(5124) }] :
                   \A n \in Range(metrics) : f[n] \in MetricScoresOf(n) } }
  \cup { DeepevalRaised }
\* The value standing for "the adapter was not called".
NoDeepeval == [raised |-> TRUE, deepeval_scores |-> <<>>, deepeval_avg |-> None]

\* ------------------------------------------------------------- result sets
\* A result file: missing, a document, or a file cut short by an
\* interrupted write.
NoFile == [kind |-> "none"]
Partial == [kind |-> "partial"]
NoRuns == [p \in Pids |-> <<>>]

\* `order` lists the keys of runs in insertion order (a dict keeps it, and
\* json keeps it across a save and a load).
FreshResults(m, t) ==
  [kind |-> "doc", model_name |-> m, created |-> t, updated |-> None,
   order |-> <<>>, runs |-> NoRuns]

\* model_data["runs"].get(pid, []) of a document.
RunsOf(d, pid) == IF d.kind = "doc" THEN d.runs[pid] ELSE <<>>

\* A faulty variant of latest_run: the first entry is returned.
latest_run_first(model_data, pid) ==
  LET runs == RunsOf(model_data, pid)
  IN  IF runs # <<>> THEN runs[1] ELSE EmptyRun

latest_run(model_data, pid) ==
  LET runs == RunsOf(model_data, pid)
  IN  IF runs # <<>> THEN runs[Len(runs)] ELSE EmptyRun

\* A faulty variant of AppendRun: the new entry replaces the history.
AppendRunReplace(model_data, pid, entry) ==
  [model_data EXCEPT
     !.order = IF model_data.runs[pid] = <<>> THEN Append(@, pid) ELSE @,
     !.runs[pid] = <<entry>>]

\* model_data["runs"][pid].append(entry), creating the list when missing.
AppendRun(model_data, pid, entry) ==
  [model_data EXCEPT
     !.order = IF model_data.runs[pid] = <<>> THEN Append(@, pid) ELSE @,
     !.runs[pid] = Append(@, entry)]

IsPrefix(s, t) == Len(s) <= Len(t) /\ SubSeq(t, 1, Len(s)) = s



\* ------------------------------------------------- the entries eval writes
\* A faulty variant of SuccessEntry: a judge that gave no score is handled
\* as a failed call, and the error entry is stored.
SuccessEntryJudgeRaises(m, judge_model_name, t, out, auto, jr, de) ==
  IF jr.judge_score = None /\ jr.judge_rationale # ""
  THEN [ keys |-> EntryKeysErr,
         timestamp |-> t,
         api_model |-> ApiModel(m),
         content |-> "",
         latency_s |-> out.latency_s,
         input_tokens |-> None,
         output_tokens |-> None,
         auto_checks |-> Some([flags |-> <<"API_ERROR">>, auto_scores |-> <<>>,
                               passed |-> FALSE]),
         judge_score |-> None,
         judge_rationale |-> "",
         judge_model |-> Some(judge_model_name),
         deepeval_scores |-> None,
         deepeval_avg |-> None,
         error |-> Some(jr.judge_rationale) ]
  ELSE [ keys |-> EntryKeysOk \cup (IF de.raised THEN {} ELSE DeepevalKeys),
         timestamp |-> t,
         api_model |-> ApiModel(m),
         content |-> out.content,
         latency_s |-> out.latency_s,
         input_tokens |-> out.input_tokens,
         output_tokens |-> out.output_tokens,
         auto_checks |-> Some(auto),
         judge_score |-> jr.judge_score,
         judge_rationale |-> jr.judge_rationale,
         judge_model |-> Some(judge_model_name),
         deepeval_scores |-> IF de.raised THEN None ELSE Some(de.deepeval_scores),
         deepeval_avg |-> IF de.raised THEN None ELSE de.deepeval_avg,
         error |-> None ]

\* The entry of a completed call (run.py 191-227).
SuccessEntry(m, judge_model_name, t, out, auto, jr, de) ==
  [ keys |-> EntryKeysOk \cup (IF de.raised THEN {} ELSE DeepevalKeys),
    timestamp |-> t,
    api_model |-> ApiModel(m),
    content |-> out.content,
    latency_s |-> out.latency_s,
    input_tokens |-> out.input_tokens,
    output_tokens |-> out.output_tokens,
    auto_checks |-> Some(auto),
    judge_score |-> jr.judge_score,
    judge_rationale |-> jr.judge_rationale,
    judge_model |-> Some(judge_model_name),
    deepeval_scores |-> IF de.raised THEN None ELSE Some(de.deepeval_scores),
    deepeval_avg |-> IF de.raised THEN None ELSE de.deepeval_avg,
    error |-> None ]

\* A faulty variant of ErrorEntry: the failed call is stored without its
\* flag and as having passed the automatic checks.
ErrorEntryPassed(m, judge_model_name, t, out) ==
  [ keys |-> EntryKeysErr,
    timestamp |-> t,
    api_model |-> ApiModel(m),
    content |-> "",
    latency_s |-> out.latency_s,
    input_tokens |-> None,
    output_tokens |-> None,
    auto_checks |-> Some([flags |-> <<>>, auto_scores |-> <<>>, passed |-> TRUE]),
    judge_score |-> None,
    judge_rationale |-> "",
    judge_model |-> Some(judge_model_name),
    deepeval_scores |-> None,
    deepeval_avg |-> None,
    error |-> Some(out.error) ]

\* The entry of a failed call (run.py 229-241).
ErrorEntry(m, judge_model_name, t, out) ==
  [ keys |-> EntryKeysErr,
    timestamp |-> t,
    api_model |-> ApiModel(m),
    content |-> "",
    latency_s |-> out.latency_s,
    input_tokens |-> None,
    output_tokens |-> None,
    auto_checks |-> Some([flags |-> <<"API_ERROR">>, auto_scores |-> <<>>,
                          passed |-> FALSE]),
    judge_score |-> None,
    judge_rationale |-> "",
    judge_model |-> Some(judge_model_name),
    deepeval_scores |-> None,
    deepeval_avg |-> None,
    error |-> Some(out.error) ]

\* ------------------------------------------------------------------- state
VARIABLES
  disk,         \* results/<model>.json for every model name
  now,          \* the clock datetime.now() reads; it ticks between commands
  ncmd,         \* commands started so far
  faults,       \* collaborator failures so far
  pc,           \* the position of the running command, "idle" between commands
  cmd,          \* the running command: arguments and loaded config
  model_data,   \* the result set the command holds in memory
  prompts,      \* cmd_eval: the prompts still to process
  model_names,  \* cmd_rejudge / cmd_deepeval: the models still to process
  todo,         \* cmd_rejudge / cmd_deepeval: to_judge / to_score still to process
  totals,       \* cmd_rejudge / cmd_deepeval: total_judged, total_skipped, total_errors
  calls,        \* collaborator invocations made by the command so far
  writes,       \* the models whose file the command has written, in order
  disk0,        \* the files as they were when the command started
  result,       \* how the command ended, "" while it runs
  prev,         \* the command before, when it was a re-scoring without
                \* --force that ended with a score from every adapter call
  peer,         \* a second invocation of eval that runs next to the command
  report        \* the leaderboard the command computed, None before that

vars ==
  << disk, now, ncmd, faults, pc, cmd, model_data, prompts, model_names,
     todo, totals, calls, writes, disk0, result, prev, peer, report >>

NoCmd ==
  [name |-> "none", model |-> "", prompts |-> <<>>, flag |-> FALSE,
   cfg |-> [judge |-> "j", deepeval_enabled |-> FALSE, metrics |-> <<>>,
            keyless |-> {}],
   file |-> <<>>, models |-> <<>>, filter_pids |-> None, has_judge |-> FALSE,
   eval_file |-> <<>>, weights |-> [judge_weight |-> 500, deepeval_weight |-> 500],
   args_models |-> <<>>, args_ids |-> None, others |-> {}]
NoTotals == [done |-> 0, skipped |-> 0, errors |-> 0]
NoCalls == [provider |-> <<>>, judge |-> <<>>, deepeval |-> <<>>]
NoDisk == [m \in ModelNames |-> NoFile]

\* Two stores earlier eval commands left behind (at time 0).
\* Store1: `eval a --ids P1`, then `eval a --ids P2` with inline DeepEval,
\* both under judge j.
DeepevalFull ==
  score_with_deepeval(EnabledMetrics, [n \in Range(EnabledMetrics) |-> Some(8000)])
Store1 ==
  [NoDisk EXCEPT !["a"] =
     AppendRun(
       AppendRun([FreshResults("a", 0) EXCEPT !.updated = Some(0)], "P1",
         SuccessEntry("a", "j", 0, ProviderOk, check_response(P1, "r1"),
                      JudgeScored, NoDeepeval)),
       "P2",
       SuccessEntry("a", "j", 0, ProviderOk, check_response(P2, "r1"),
                    JudgeScored, DeepevalFull))]
\* Store2: `eval a` under judge j with a provider failure on P2, and
\* `eval b --ids P2` while b was the judge itself.
Store2 ==
  [NoDisk EXCEPT
     !["a"] =
       AppendRun(
         AppendRun([FreshResults("a", 0) EXCEPT !.updated = Some(0)], "P1",
           SuccessEntry("a", "j", 0, ProviderOk, check_response(P1, "r1"),
                        JudgeScored, NoDeepeval)),
         "P2", ErrorEntry("a", "j", 0, ProviderHttpError)),
     !["b"] =
       AppendRun([FreshResults("b", 0) EXCEPT !.updated = Some(0)], "P2",
         SuccessEntry("b", "b", 0, ProviderOk, check_response(P2, "r1"),
                      NoJudge, NoDeepeval))]
InitStores == { NoDisk, Store1, Store2 }
\* No second invocation.
NoPeer ==
  [pc |-> "none", model |-> "", cfg |-> NoCmd.cfg, has_judge |-> FALSE,
   loaded |-> NoFile, model_data |-> NoFile, prompts |-> <<>>]

Init ==
  /\ disk \in InitStores
  /\ now = 1
  /\ ncmd = 0
  /\ faults = 0
  /\ pc = "idle"
  /\ cmd = NoCmd
  /\ model_data = NoFile
  /\ prompts = <<>>
  /\ model_names = <<>>
  /\ todo = <<>>
  /\ totals = NoTotals
  /\ calls = NoCalls
  /\ writes = <<>>
  /\ disk0 = NoDisk
  /\ result = ""
  /\ prev = NoCmd
  /\ peer = NoPeer
  /\ report = None

\* ------------------------------------------------------------- data layer
\* A faulty variant of load_model_results: the stored file is ignored.
load_model_results_fresh(m) == FreshResults(m, now)

\* A faulty variant of LoadFails: the file is opened without looking
\* whether it exists.
LoadFailsMissing(m) == disk[m].kind # "doc"

\* load_model_results: the parsed file, or a fresh empty result set.  A file
\* cut short does not parse: json.load raises (LoadFails) and the command
\* dies with the exception.
LoadFails(m) == disk[m].kind = "partial"
load_model_results(m) ==
  IF disk[m].kind = "doc" THEN disk[m] ELSE FreshResults(m, now)

\* The file stems the model knows, as sorted() orders them.
StemOrder == <<"a", "b", "comparison">>

\* A faulty variant of sorted_stems: no stem is left out.
sorted_stems_all(stems) == SelectSeq(StemOrder, LAMBDA n : n \in stems)

\* sorted(stem of f for f in results/*.json if stem != "comparison")
\* (run.py 81).
sorted_stems(stems) ==
  SelectSeq(StemOrder, LAMBDA n : n \in stems /\ n # "comparison")

\* The stems of results/*.json: the result sets, and `others`, the json
\* files in the directory that are not result sets.
Stems(others) == { m \in ModelNames : disk[m].kind # "none" } \cup others

\* list_evaluated_models (run.py 78-81) when results/ holds the result
\* sets alone.
list_evaluated_models == sorted_stems(Stems({}))

\* A command starts: the shell launches the process.
Launch(c) ==
  /\ pc = "idle"
  /\ ncmd' = ncmd + 1
  /\ now' = now + 1
  /\ disk0' = disk
  /\ cmd' = c
  /\ calls' = NoCalls
  /\ writes' = <<>>
  /\ totals' = NoTotals
  /\ UNCHANGED prev

\* The command returns or dies: only the exit status is left to see.
Finish(how) ==
  /\ pc' = "exit"
  /\ result' = how
  /\ UNCHANGED prev

\* The command was a rejudge or deepeval without --force that returned
\* after every adapter call it made had returned a score.
CleanRescore ==
  /\ cmd.name \in {"rejudge", "deepeval"}
  /\ ~cmd.flag
  /\ result = "done"
  /\ \A i \in 1..Len(calls.judge) : calls.judge[i].out.judge_score # None
  /\ \A i \in 1..Len(calls.deepeval) :
        ~calls.deepeval[i].out.raised /\ calls.deepeval[i].out.deepeval_avg # None

\* The process is gone and its memory with it.
Exit ==
  /\ pc = "exit"
  /\ pc' = "idle"
  /\ cmd' = NoCmd
  /\ model_data' = NoFile
  /\ prompts' = <<>>
  /\ model_names' = <<>>
  /\ todo' = <<>>
  /\ totals' = NoTotals
  /\ calls' = NoCalls
  /\ writes' = <<>>
  /\ disk0' = NoDisk
  /\ result' = ""
  /\ prev' = IF CleanRescore THEN [cmd EXCEPT !.model = ""] ELSE NoCmd
  /\ report' = None
  /\ UNCHANGED << peer, disk, now, ncmd, faults >>

\* ------------------------------------------------------------ aggregation
\* config["composite"]: judge_weight and deepeval_weight in thousandths;
\* 0.5 / 0.5 when the section is missing.
DefaultWeights == [judge_weight |-> 500, deepeval_weight |-> 500]
WeightChoices == { DefaultWeights, [judge_weight |-> 800, deepeval_weight |-> 200] }

RECURSIVE SumSeq(_)
SumSeq(xs) == IF xs = <<>> THEN 0 ELSE Head(xs) + SumSeq(Tail(xs))

\* sum(xs) / len(xs) if xs else 0, as the fraction <<numerator, denominator>>.
Mean(xs) == IF xs # <<>> THEN <<SumSeq(xs), Len(xs)>> ELSE <<0, 1>>

\* The latest runs of the target prompts, those without a run left out
\* (`if not run: continue`).
LatestRuns(data, pids) ==
  SelectSeq([i \in 1..Len(pids) |-> latest_run(data, pids[i])],
            LAMBDA run : run.keys # {})

\* run.get("auto_checks", {}).get("flags") is truthy.
HasFlags(run) ==
  /\ Get(run, "auto_checks") # None
  /\ run.auto_checks[1].flags # <<>>

\* The values collected from the runs: judge scores and secondary averages
\* that are not None, latencies, and output tokens (`or 0`).
JudgeScoresOf(runs) ==
  LET have == SelectSeq(runs, LAMBDA run : Get(run, "judge_score") # None)
  IN  [i \in 1..Len(have) |-> have[i].judge_score[1]]
DeepevalAvgsOf(runs) ==
  LET have == SelectSeq(runs, LAMBDA run : Get(run, "deepeval_avg") # None)
  IN  [i \in 1..Len(have) |-> have[i].deepeval_avg[1]]
LatenciesOf(runs) == [i \in 1..Len(runs) |-> GetOr(runs[i], "latency_s", 0)]
TokensOf(runs) ==
  [i \in 1..Len(runs) |->
     IF Get(runs[i], "output_tokens") # None THEN runs[i].output_tokens[1] ELSE 0]

\* A faulty variant of Composite: the judge mean is merged as it is, on
\* its 1-5 scale.
CompositeRaw(scores, de, w) ==
  LET S == SumSeq(scores)
      n == Len(scores)
  IN  IF scores # <<>> /\ de # None
      THEN Some(RoundDiv(w.judge_weight * S * 10000 * de[2]
                           + w.deepeval_weight * de[1] * 4 * n,
                         1000 * 4 * n * de[2]))
      ELSE IF scores # <<>>
      THEN Some(RoundDiv((S - n) * 10000, 4 * n))
      ELSE IF de # None
      THEN Some(RoundDiv(de[1], de[2]))
      ELSE None

\* A faulty variant of Composite: a missing dimension counts as zero.
CompositeZeroFill(scores, de, w) ==
  LET S == SumSeq(scores)
      n == IF scores = <<>> THEN 1 ELSE Len(scores)
      d == IF de = None THEN <<0, 1>> ELSE de
  IN  Some(RoundDiv(w.judge_weight * (S - Len(scores)) * 10000 * d[2]
                      + w.deepeval_weight * d[1] * 4 * n,
                    1000 * 4 * n * d[2]))

\* The composite score in 1/10000 units (run.py 333-342, dashboard.py
\* 139-148): `scores` are the judge scores, `de` is the secondary average as
\* a fraction of 1/10000 units, or None.
Composite(scores, de, w) ==
  LET S == SumSeq(scores)
      n == Len(scores)
  IN  IF scores # <<>> /\ de # None
      THEN Some(RoundDiv(w.judge_weight * (S - n) * 10000 * de[2]
                           + w.deepeval_weight * de[1] * 4 * n,
                         1000 * 4 * n * de[2]))
      ELSE IF scores # <<>>
      THEN Some(RoundDiv((S - n) * 10000, 4 * n))
      ELSE IF de # None
      THEN Some(RoundDiv(de[1], de[2]))
      ELSE None

\* One leaderboard tuple of cmd_compare (run.py 309-344).
CompareRow(name, data, pids, w) ==
  LET runs == LatestRuns(data, pids)
      scores == JudgeScoresOf(runs)
      de_avgs == DeepevalAvgsOf(runs)
  IN  [ name |-> name,
        avg_s |-> Mean(scores),
        scored |-> Len(scores),
        total |-> Len(runs),
        errors |-> 0,
        flagged |-> Len(SelectSeq(runs, HasFlags)),
        avg_l |-> Mean(LatenciesOf(runs)),
        avg_t |-> Mean(TokensOf(runs)),
        efficiency |-> None,
        deepeval_avg |-> IF de_avgs # <<>> THEN Some(Mean(de_avgs)) ELSE None,
        composite |->
          Composite(scores,
                    IF de_avgs # <<>> THEN Mean(de_avgs) ELSE None, w) ]

\* A faulty variant of Efficiency: the token mean is not looked at.
EfficiencyAnyTokens(avg_s, avg_t) ==
  IF avg_s[1] > 0
  THEN [zero |-> FALSE, avg_s |-> avg_s, avg_t |-> avg_t]
  ELSE [zero |-> TRUE, avg_s |-> <<0, 1>>, avg_t |-> <<0, 1>>]

\* dashboard.py 127-131.  The quotient round(avg_s / log2(avg_t), 2) is
\* kept as its two operands; `zero` says that 0 was stored instead.
Efficiency(avg_s, avg_t) ==
  IF avg_s[1] > 0 /\ avg_t[1] > avg_t[2]
  THEN [zero |-> FALSE, avg_s |-> avg_s, avg_t |-> avg_t]
  ELSE [zero |-> TRUE, avg_s |-> <<0, 1>>, avg_t |-> <<0, 1>>]

\* One leaderboard row of compute_stats (dashboard.py 58-168): runs with a
\* truthy error are counted and left out of everything but `total`.
StatsRow(name, data, pids, w) ==
  LET all == LatestRuns(data, pids)
      runs == SelectSeq(all, LAMBDA run : ~TruthyStr(Get(run, "error")))
      scores == JudgeScoresOf(runs)
      de_avgs == DeepevalAvgsOf(runs)
      deepeval_avg == IF de_avgs # <<>>
                      THEN Some(<<RoundDiv(SumSeq(de_avgs), Len(de_avgs)), 1>>)
                      ELSE None
  IN  [ name |-> name,
        avg_s |-> Mean(scores),
        scored |-> Len(scores),
        total |-> Len(all),
        errors |-> Len(all) - Len(runs),
        flagged |-> Len(SelectSeq(runs, HasFlags)),
        avg_l |-> Mean(LatenciesOf(runs)),
        avg_t |-> Mean(TokensOf(runs)),
        efficiency |-> Some(Efficiency(Mean(scores), Mean(TokensOf(runs)))),
        deepeval_avg |-> deepeval_avg,
        composite |->
          Composite(scores,
                    IF deepeval_avg # None THEN deepeval_avg[1] ELSE None, w) ]

\* The prompt ids of a category, in the order of the eval set
\* (dashboard.py 55).
CatPids(file, cat) ==
  LET ps == SelectSeq(file, LAMBDA p : p.category = cat)
  IN  [i \in 1..Len(ps) |-> ps[i].id]

\* The per-category composite of compute_stats (dashboard.py 92-120) in
\* 1/10000 units: the means of the category's judge scores and secondary
\* averages are rounded to two decimals first (cs and cd are in hundredths),
\* and the latest runs are taken as they are, errored or not.
CatComposite(data, pids, w) ==
  LET runs == LatestRuns(data, pids)
      cs == JudgeScoresOf(runs)
      cat_de == DeepevalAvgsOf(runs)
      cat_score == RoundDiv(SumSeq(cs) * 100, IF cs = <<>> THEN 1 ELSE Len(cs))
      cat_da == RoundDiv(SumSeq(cat_de), 100 * (IF cat_de = <<>> THEN 1 ELSE Len(cat_de)))
  IN  IF cs # <<>> /\ cat_de # <<>>
      THEN Some(RoundDiv(w.judge_weight * (cat_score - 100)
                           + 4 * w.deepeval_weight * cat_da, 40))
      ELSE IF cs # <<>>
      THEN Some((cat_score - 100) * 25)
      ELSE IF cat_de # <<>>
      THEN Some(cat_da * 100)
      ELSE None

\* cat_composite of one leaderboard row: a composite per category of the
\* eval set.
CatComposites(data, file, w) ==
  [cat \in { file[i].category : i \in 1..Len(file) } |->
     CatComposite(data, CatPids(file, cat), w)]

\* A faulty variant of KeyLess: the composite alone decides.
KeyLessComposite(x, y) ==
  LET cx == IF x.composite # None THEN x.composite[1] ELSE 0
      cy == IF y.composite # None THEN y.composite[1] ELSE 0
  IN  cx < cy

\* The sort key (scored > 0, composite or 0), compared as Python compares
\* tuples.
KeyLess(x, y) ==
  LET bx == IF x.scored > 0 THEN 1 ELSE 0
      by == IF y.scored > 0 THEN 1 ELSE 0
      cx == IF x.composite # None THEN x.composite[1] ELSE 0
      cy == IF y.composite # None THEN y.composite[1] ELSE 0
  IN  bx < by \/ (bx = by /\ cx < cy)


\* list.sort(key, reverse=True): descending, and rows with equal keys keep
\* the order they had.
RECURSIVE InsertRow(_, _)
InsertRow(sorted, x) ==
  IF sorted = <<>> THEN <<x>>
  ELSE IF KeyLess(Head(sorted), x) THEN <<x>> \o sorted
  ELSE <<Head(sorted)>> \o InsertRow(Tail(sorted), x)
RECURSIVE SortRows(_)
SortRows(rows) ==
  IF rows = <<>> THEN <<>>
  ELSE InsertRow(SortRows(SubSeq(rows, 1, Len(rows) - 1)), rows[Len(rows)])

PromptIds(file) == [i \in 1..Len(file) |-> file[i].id]

\* The sorted leaderboard of cmd_compare over the loaded result sets
\* (run.py 308-346), and that of compute_stats (dashboard.py 57-170).
CompareBoard(files, names, pids, w) ==
  SortRows([i \in 1..Len(names) |->
              CompareRow(names[i], files[names[i]], pids, w)])
StatsBoard(files, names, file, w) ==
  SortRows([i \in 1..Len(names) |->
              StatsRow(names[i], files[names[i]], PromptIds(file), w)
              @@ [cat_composite |-> CatComposites(files[names[i]], file, w)]])

\* A faulty variant of save_comparison_md: the report is dated by
\* refreshing `updated` of the result sets it covers.
save_comparison_md_touch(files, save, t) ==
  [m \in ModelNames |->
     IF save /\ files[m].kind = "doc"
     THEN [files[m] EXCEPT !.updated = Some(t)]
     ELSE files[m]]

\* The files of results/ after _save_comparison_md (run.py 401-405,
\* 434-463): comparison.md is written next to the result sets, which stay
\* as they are.
save_comparison_md(files, save, t) == files

\* cmd_compare (run.py 272-405): the printed leaderboard is kept in report.
cmd_compare(models, flt, save, w, file) ==
  LET ps == filter_prompts(file, flt.ids, flt.categories, flt.difficulty)
      names == IF models # <<>> THEN models ELSE list_evaluated_models
      kept == SelectSeq(names, LAMBDA m : load_model_results(m).order # <<>>)
      board == CompareBoard([m \in ModelNames |-> load_model_results(m)],
                            kept, PromptIds(ps), w)
  IN  /\ Launch([NoCmd EXCEPT !.name = "compare", !.flag = save, !.file = ps,
                              !.eval_file = file, !.models = names,
                              !.args_models = models, !.weights = w])
      /\ IF names = <<>>
         THEN Finish("exit1") /\ UNCHANGED report
         ELSE IF \E i \in 1..Len(names) : LoadFails(names[i])
         THEN Finish("exception") /\ UNCHANGED report
         ELSE IF kept = <<>>
         THEN Finish("exit1") /\ UNCHANGED report
         ELSE Finish("done") /\ report' = Some(board)
      /\ disk' = IF names # <<>> /\ kept # <<>>
                    /\ ~\E i \in 1..Len(names) : LoadFails(names[i])
                 THEN save_comparison_md(disk, save, now + 1)
                 ELSE disk
      /\ UNCHANGED << peer, faults, model_data, prompts, model_names, todo >>

\* One line of cmd_models (run.py 415-420).
ModelLine(name, data) ==
  [ name |-> name,
    total |-> Len(data.order),
    scored |-> Cardinality({ pid \in Range(data.order) :
                 Get(data.runs[pid][Len(data.runs[pid])], "judge_score") # None }),
    updated |-> IF data.updated # None THEN data.updated ELSE Some(data.created) ]

\* cmd_models (run.py 408-420): the listing is kept in cmd.models, the
\* printed lines in report.  A listed file that is no result set, or one
\* cut short, makes the command die.
cmd_models(others) ==
  LET names == sorted_stems(Stems(others))
  IN  /\ Launch([NoCmd EXCEPT !.name = "models", !.models = names,
                              !.others = others])
      /\ IF names = <<>>
         THEN Finish("noop") /\ UNCHANGED report
         ELSE IF \E i \in 1..Len(names) :
                   names[i] \notin ModelNames \/ LoadFails(names[i])
         THEN Finish("exception") /\ UNCHANGED report
         ELSE /\ Finish("done")
              /\ report' = Some([i \in 1..Len(names) |->
                                   ModelLine(names[i], disk[names[i]])])
      /\ UNCHANGED << peer, disk, faults, model_data, prompts, model_names,
                      todo >>

\* load_all_results (dashboard.py 28-36): json.load of every results/*.json.
DashboardFails == \E m \in ModelNames : disk[m].kind = "partial"

\* generate_dashboard (dashboard.py 2019-2070): the leaderboard written to
\* docs/, None when there is no result file.  The judge model is left out.
generate_dashboard(judge, w, file) ==
  LET names == SelectSeq(list_evaluated_models, LAMBDA m : m # judge)
  IN  IF list_evaluated_models = <<>> THEN None
      ELSE Some(StatsBoard(disk, names, file, w))

\* cmd_dashboard (run.py 709-717).
cmd_dashboard(judge, w, file) ==
  /\ Launch([NoCmd EXCEPT !.name = "dashboard", !.file = file,
                          !.eval_file = file, !.cfg.judge = judge,
                          !.weights = w])
  /\ IF DashboardFails
     THEN Finish("exception") /\ UNCHANGED report
     ELSE IF list_evaluated_models = <<>>
     THEN Finish("noop") /\ UNCHANGED report
     ELSE Finish("done") /\ report' = generate_dashboard(judge, w, file)
  /\ UNCHANGED << peer, disk, faults, model_data, prompts, model_names, todo >>

\* The end of eval, rejudge and deepeval (run.py 264-267, 583-586,
\* 703-706): the dashboard is generated again.
FinishWithDashboard ==
  IF DashboardFails
  THEN Finish("exception") /\ UNCHANGED report
  ELSE /\ Finish("done")
       /\ report' = generate_dashboard(cmd.cfg.judge, DefaultWeights,
                                       cmd.eval_file)

\* ------------------------------------------------------------------ saving
\* save_model_results, first half: data["updated"] is refreshed and
\* open(path, "w") truncates the file.
save_model_results_open ==
  /\ pc = "save_open"
  /\ model_data' = [model_data EXCEPT !.updated = Some(now)]
  /\ disk' = [disk EXCEPT ![cmd.model] = Partial]
  /\ pc' = "save_dump"
  /\ UNCHANGED << report, peer, now, ncmd, faults, cmd, prompts, model_names, todo, totals,
                  calls, writes, disk0, result, prev >>

\* A faulty variant of AfterSave: eval returns after its first save.
AfterSaveReturns ==
  IF cmd.name = "eval"
  THEN "eval_done"
  ELSE IF cmd.name = "rejudge" THEN "rejudge_model" ELSE "deepeval_model"

\* Where the command goes on after a save.
AfterSave ==
  IF cmd.name = "eval"
  THEN (IF prompts = <<>> THEN "eval_done" ELSE "eval_loop")
  ELSE IF cmd.name = "rejudge" THEN "rejudge_model" ELSE "deepeval_model"

\* save_model_results, second half: json.dump writes the whole document.
save_model_results_dump ==
  /\ pc = "save_dump"
  /\ disk' = [disk EXCEPT ![cmd.model] = model_data]
  /\ writes' = Append(writes, cmd.model)
  /\ pc' = AfterSave
  /\ UNCHANGED << report, peer, now, ncmd, faults, cmd, model_data, prompts, model_names,
                  todo, totals, calls, disk0, result, prev >>

\* ------------------------------------------------------------ eval command
\* A faulty variant of ProviderInitFails: a missing key goes unnoticed.
ProviderInitNeverFails(cfg, m) == FALSE

\* get_provider raises ValueError for the model (providers.py 178-182).
ProviderInitFails(cfg, m) == m \in cfg.keyless

\* A faulty variant of JudgeProvider: the judge may be the evaluated model.
JudgeProviderSelf(cfg, m) ==
  /\ cfg.judge \in ModelsCfg
  /\ ~ProviderInitFails(cfg, cfg.judge)

\* judge_provider is set up (run.py 155-172): the judge is configured, is
\* another model, and its provider can be initialised.
JudgeProvider(cfg, m) ==
  /\ cfg.judge \in ModelsCfg
  /\ cfg.judge # m
  /\ ~ProviderInitFails(cfg, cfg.judge)

\* What a collaborator outcome costs against MaxFaults.
ProviderFault(out) == IF out.ok THEN 0 ELSE 1
JudgeFault(jr) == IF jr \in JudgeOutcomes /\ jr.judge_score = None THEN 1 ELSE 0
DeepevalFault(de, called) ==
  IF called /\ (de.raised \/ \E i \in 1..Len(de.deepeval_scores) :
                                 de.deepeval_scores[i][2] = None)
  THEN 1 ELSE 0

\* A faulty variant of Remaining: --rerun is ignored.
RemainingIgnoringRerun(ps, data, rerun) ==
  SelectSeq(ps, LAMBDA p : p.id \notin Range(data.order))

\* The prompts cmd_eval goes through (run.py 135-141): without --rerun the
\* ones that have no run yet.
Remaining(ps, data, rerun) ==
  LET already_done == Range(data.order)
      overlap == { ps[i].id : i \in 1..Len(ps) } \cap already_done
  IN  IF overlap # {} /\ ~rerun
      THEN SelectSeq(ps, LAMBDA p : p.id \notin overlap)
      ELSE ps

\* cmd_eval up to its loop (run.py 118-179).  cmd.file keeps the prompts
\* the filter selected, cmd.prompts the ones the loop goes through.
cmd_eval(m, flt, rerun, cfg, file) ==
  LET ps == filter_prompts(file, flt.ids, flt.categories, flt.difficulty)
      data == load_model_results(m)
      rest == Remaining(ps, data, rerun)
  IN  /\ Launch([NoCmd EXCEPT !.name = "eval", !.model = m, !.flag = rerun,
                              !.eval_file = file,
                              !.cfg = cfg, !.file = ps,
                              !.prompts = IF m \in ModelNames THEN rest ELSE <<>>,
                              !.has_judge = JudgeProvider(cfg, m)])
      /\ IF m \notin ModelsCfg \/ ps = <<>>
         THEN Finish("exit1") /\ UNCHANGED << model_data, prompts >>
         ELSE IF LoadFails(m)
         THEN Finish("exception") /\ UNCHANGED << model_data, prompts >>
         ELSE IF rest = <<>>
         THEN Finish("noop") /\ UNCHANGED << model_data, prompts >>
         ELSE IF ProviderInitFails(cfg, m)
         THEN Finish("exit1") /\ UNCHANGED << model_data, prompts >>
         ELSE /\ pc' = "eval_loop"
              /\ model_data' = data
              /\ prompts' = rest
              /\ UNCHANGED result
      /\ UNCHANGED << report, peer, disk, faults, model_names, todo >>

\* One pass of cmd_eval's loop up to the append (run.py 181-246); the save
\* of line 247 follows as save_model_results_open / _dump.
cmd_eval_prompt ==
  /\ pc = "eval_loop"
  /\ LET pmeta == Head(prompts)
         pid == pmeta.id
     IN  \E out \in ProviderOutcomes :
         \E jr \in (IF out.ok /\ cmd.has_judge THEN JudgeOutcomes ELSE {NoJudge}) :
         \E de \in (IF out.ok /\ cmd.cfg.deepeval_enabled
                    THEN DeepevalOutcomes(cmd.cfg.metrics) ELSE {NoDeepeval}) :
           LET auto == check_response(pmeta, out.content)
               entry == IF out.ok
                        THEN SuccessEntry(cmd.model, cmd.cfg.judge, now, out, auto, jr, de)
                        ELSE ErrorEntry(cmd.model, cmd.cfg.judge, now, out)
               cost == ProviderFault(out) + JudgeFault(jr)
                       + DeepevalFault(de, out.ok /\ cmd.cfg.deepeval_enabled)
           IN  /\ faults + cost <= MaxFaults
               /\ faults' = faults + cost
               /\ model_data' = AppendRun(model_data, pid, entry)
               /\ calls' = [calls EXCEPT
                    !.provider = Append(@, [model |-> cmd.model, pid |-> pid, out |-> out]),
                    !.judge = IF out.ok /\ cmd.has_judge
                              THEN Append(@, [model |-> cmd.model, pid |-> pid, out |-> jr]) ELSE @,
                    !.deepeval = IF out.ok /\ cmd.cfg.deepeval_enabled
                                 THEN Append(@, [model |-> cmd.model, pid |-> pid, out |-> de]) ELSE @]
  /\ prompts' = Tail(prompts)
  /\ pc' = "save_open"
  /\ UNCHANGED << report, peer, disk, now, ncmd, cmd, model_names, todo, totals, writes,
                  disk0, result, prev >>

\* The end of cmd_eval (run.py 252-267): the summary is printed and the
\* dashboard regenerated from the files, which it only reads.
cmd_eval_done ==
  /\ pc = "eval_done"
  /\ FinishWithDashboard
  /\ UNCHANGED << peer, disk, now, ncmd, faults, cmd, model_data, prompts,
                  model_names, todo, totals, calls, writes, disk0 >>

\* The process is killed (power loss, SIGKILL) at whatever step it is in:
\* its memory is gone and the files stay as they are.
Crash ==
  /\ pc \notin {"idle", "exit"}
  /\ pc' = "idle"
  /\ cmd' = NoCmd
  /\ model_data' = NoFile
  /\ prompts' = <<>>
  /\ model_names' = <<>>
  /\ todo' = <<>>
  /\ totals' = NoTotals
  /\ calls' = NoCalls
  /\ writes' = <<>>
  /\ disk0' = NoDisk
  /\ result' = ""
  /\ prev' = NoCmd
  /\ report' = None
  /\ UNCHANGED << peer, disk, now, ncmd, faults >>

\* --------------------------------------------------------- rejudge command
\* A faulty variant of HasPrompt: a stored id is taken to be in the set.
HasPromptAlways(file, pid) == TRUE

\* prompts_by_id.get(pid) over the eval set the command loaded.
HasPrompt(file, pid) == \E i \in 1..Len(file) : file[i].id = pid

\* A faulty variant of RejudgeEntry: the token counts are not copied.
RejudgeEntryNoTokens(run, jr, judge_model_name, t) ==
  [ keys |-> EntryKeysOk,
    timestamp |-> t,
    api_model |-> GetOr(run, "api_model", ""),
    content |-> run.content,
    latency_s |-> GetOr(run, "latency_s", 0),
    input_tokens |-> None,
    output_tokens |-> None,
    auto_checks |-> GetOr(run, "auto_checks", Some(DefaultAutoChecks)),
    judge_score |-> jr.judge_score,
    judge_rationale |-> jr.judge_rationale,
    judge_model |-> Some(judge_model_name),
    deepeval_scores |-> None,
    deepeval_avg |-> None,
    error |-> None ]

\* A faulty variant of RejudgeEntry: the judge named by the prior entry is
\* copied instead of the current one.
RejudgeEntryOldJudge(run, jr, judge_model_name, t) ==
  [ keys |-> EntryKeysOk,
    timestamp |-> t,
    api_model |-> GetOr(run, "api_model", ""),
    content |-> run.content,
    latency_s |-> GetOr(run, "latency_s", 0),
    input_tokens |-> Get(run, "input_tokens"),
    output_tokens |-> Get(run, "output_tokens"),
    auto_checks |-> GetOr(run, "auto_checks", Some(DefaultAutoChecks)),
    judge_score |-> jr.judge_score,
    judge_rationale |-> jr.judge_rationale,
    judge_model |-> Get(run, "judge_model"),
    deepeval_scores |-> None,
    deepeval_avg |-> None,
    error |-> None ]

\* A faulty variant of RejudgeEntry: the prior entry is copied whole and
\* the judge fields are overwritten, so that an error key stays.
RejudgeEntryCopy(run, jr, judge_model_name, t) ==
  [ keys |-> EntryKeysOk \cup (run.keys \cap {"error"}),
    timestamp |-> t,
    api_model |-> GetOr(run, "api_model", ""),
    content |-> run.content,
    latency_s |-> GetOr(run, "latency_s", 0),
    input_tokens |-> Get(run, "input_tokens"),
    output_tokens |-> Get(run, "output_tokens"),
    auto_checks |-> GetOr(run, "auto_checks", Some(DefaultAutoChecks)),
    judge_score |-> jr.judge_score,
    judge_rationale |-> jr.judge_rationale,
    judge_model |-> Some(judge_model_name),
    deepeval_scores |-> None,
    deepeval_avg |-> None,
    error |-> Get(run, "error") ]

\* The entry rejudge appends (run.py 551-562).
RejudgeEntry(run, jr, judge_model_name, t) ==
  [ keys |-> EntryKeysOk,
    timestamp |-> t,
    api_model |-> GetOr(run, "api_model", ""),
    content |-> run.content,
    latency_s |-> GetOr(run, "latency_s", 0),
    input_tokens |-> Get(run, "input_tokens"),
    output_tokens |-> Get(run, "output_tokens"),
    auto_checks |-> GetOr(run, "auto_checks", Some(DefaultAutoChecks)),
    judge_score |-> jr.judge_score,
    judge_rationale |-> jr.judge_rationale,
    judge_model |-> Some(judge_model_name),
    deepeval_scores |-> None,
    deepeval_avg |-> None,
    error |-> None ]

\* run.py 523: the latest run is missing or recorded an error.
RunUnusable(run) == run.keys = {} \/ TruthyStr(Get(run, "error"))

\* A faulty variant of RejudgeSkips: a score of any judge is enough.
RejudgeSkipsAnyScore(run, force, judge_model_name) ==
  /\ ~force
  /\ Get(run, "judge_score") # None

\* A faulty variant of RejudgeSkips: an entry of the current judge is
\* enough, scored or not.
RejudgeSkipsAnyOutcome(run, force, judge_model_name) ==
  /\ ~force
  /\ Get(run, "judge_model") = Some(judge_model_name)

\* A faulty variant of RejudgeSkips: --force is ignored.
RejudgeSkipsIgnoringForce(run, force, judge_model_name) ==
  /\ Get(run, "judge_model") = Some(judge_model_name)
  /\ Get(run, "judge_score") # None

\* run.py 525: already scored by the current judge, and no --force.
RejudgeSkips(run, force, judge_model_name) ==
  /\ ~force
  /\ Get(run, "judge_model") = Some(judge_model_name)
  /\ Get(run, "judge_score") # None

\* A faulty variant of ToJudge: the candidates are taken in sorted order
\* of their ids.
ToJudgeSorted(data, force, judge_model_name) ==
  SelectSeq(<<"P1", "P2">>, LAMBDA pid :
    LET run == latest_run(data, pid)
    IN  /\ pid \in Range(data.order)
        /\ ~RunUnusable(run) /\ ~RejudgeSkips(run, force, judge_model_name))

\* to_judge of one model (run.py 518-528).
ToJudge(data, force, judge_model_name) ==
  SelectSeq(data.order, LAMBDA pid :
    LET run == latest_run(data, pid)
    IN  ~RunUnusable(run) /\ ~RejudgeSkips(run, force, judge_model_name))

\* The candidates the selection loop counts as skipped.
RejudgeSkipped(data, force, judge_model_name) ==
  SelectSeq(data.order, LAMBDA pid :
    LET run == latest_run(data, pid)
    IN  ~RunUnusable(run) /\ RejudgeSkips(run, force, judge_model_name))

\* cmd_rejudge up to its loop over the models (run.py 466-506).
cmd_rejudge(models, force, cfg, file) ==
  LET names == IF models # <<>> THEN models ELSE list_evaluated_models
  IN  /\ Launch([NoCmd EXCEPT !.name = "rejudge", !.flag = force, !.cfg = cfg,
                              !.eval_file = file,
                              !.file = file, !.models = names,
                              !.args_models = models])
      /\ IF cfg.judge \notin ModelsCfg \/ ProviderInitFails(cfg, cfg.judge)
         THEN Finish("exit1") /\ UNCHANGED model_names
         ELSE IF names = <<>>
         THEN Finish("noop") /\ UNCHANGED model_names
         ELSE pc' = "rejudge_model" /\ model_names' = names /\ UNCHANGED result
      /\ UNCHANGED << report, peer, disk, faults, model_data, prompts, todo >>

\* The head of one pass of the loop over the models (run.py 508-534).
cmd_rejudge_model ==
  /\ pc = "rejudge_model"
  /\ model_names # <<>>
  /\ LET m == Head(model_names)
         data == load_model_results(m)
         to_judge == ToJudge(data, cmd.flag, cmd.cfg.judge)
         nskip == Len(RejudgeSkipped(data, cmd.flag, cmd.cfg.judge))
     IN  /\ model_names' = Tail(model_names)
         /\ IF m = cmd.cfg.judge
            THEN UNCHANGED << pc, result, cmd, model_data, todo, totals >>
            ELSE IF LoadFails(m)
            THEN Finish("exception") /\ UNCHANGED << cmd, model_data, todo, totals >>
            ELSE IF data.order = <<>>
            THEN UNCHANGED << pc, result, cmd, model_data, todo, totals >>
            ELSE /\ totals' = [totals EXCEPT !.skipped = @ + nskip]
                 /\ IF to_judge = <<>>
                    THEN UNCHANGED << pc, result, cmd, model_data, todo >>
                    ELSE /\ cmd' = [cmd EXCEPT !.model = m]
                         /\ model_data' = data
                         /\ todo' = to_judge
                         /\ pc' = "rejudge_cand"
                         /\ UNCHANGED result
  /\ UNCHANGED << report, peer, disk, now, ncmd, faults, prompts, calls, writes, disk0, prev >>

\* A faulty variant of AfterCandidate: the file is saved after every
\* candidate.
AfterCandidateSaves(rest, loop) == "save_open"

\* Where the loop over the candidates goes on: to the save after the last
\* candidate (run.py 576-579, 696-699), else to the next candidate.
AfterCandidate(rest, loop) == IF rest = <<>> THEN "save_open" ELSE loop

\* One pass of the loop over to_judge (run.py 536-577); after the last one
\* the save of line 579 follows.
cmd_rejudge_candidate ==
  /\ pc = "rejudge_cand"
  /\ LET pid == Head(todo)
         run == latest_run(model_data, pid)
     IN  IF ~HasPrompt(cmd.file, pid)
         THEN UNCHANGED << faults, model_data, totals, calls >>
         ELSE \E jr \in JudgeOutcomes :
                /\ faults + JudgeFault(jr) <= MaxFaults
                /\ faults' = faults + JudgeFault(jr)
                /\ model_data' = AppendRun(model_data, pid,
                                   RejudgeEntry(run, jr, cmd.cfg.judge, now))
                /\ calls' = [calls EXCEPT !.judge = Append(@, [model |-> cmd.model, pid |-> pid, out |-> jr])]
                /\ totals' = IF jr.judge_score # None
                             THEN [totals EXCEPT !.done = @ + 1]
                             ELSE [totals EXCEPT !.errors = @ + 1]
  /\ todo' = Tail(todo)
  /\ pc' = AfterCandidate(Tail(todo), "rejudge_cand")
  /\ UNCHANGED << report, peer, disk, now, ncmd, cmd, prompts, model_names, writes, disk0,
                  result, prev >>

\* The end of cmd_rejudge (run.py 581-586): the totals are printed and the
\* dashboard regenerated from the files, which it only reads.
cmd_rejudge_done ==
  /\ pc = "rejudge_model"
  /\ model_names = <<>>
  /\ FinishWithDashboard
  /\ UNCHANGED << peer, disk, now, ncmd, faults, cmd, model_data, prompts,
                  model_names, todo, totals, calls, writes, disk0 >>

\* -------------------------------------------------------- deepeval command
\* The entry deepeval appends (run.py 668-681).
DeepevalEntry(run, de, t) ==
  [ keys |-> EntryKeysOk \cup DeepevalKeys,
    timestamp |-> t,
    api_model |-> GetOr(run, "api_model", ""),
    content |-> run.content,
    latency_s |-> GetOr(run, "latency_s", 0),
    input_tokens |-> Get(run, "input_tokens"),
    output_tokens |-> Get(run, "output_tokens"),
    auto_checks |-> GetOr(run, "auto_checks", Some(DefaultAutoChecks)),
    judge_score |-> Get(run, "judge_score"),
    judge_rationale |-> GetOr(run, "judge_rationale", ""),
    judge_model |-> Get(run, "judge_model"),
    deepeval_scores |-> Some(de.deepeval_scores),
    deepeval_avg |-> de.deepeval_avg,
    error |-> None ]

\* A faulty variant of DeepevalSkips: only a prompt with an average counts
\* as scored.
DeepevalSkipsScored(run, force) == ~force /\ Get(run, "deepeval_avg") # None

\* run.py 644: already has DeepEval scores, and no --force.
DeepevalSkips(run, force) == ~force /\ TruthyMap(Get(run, "deepeval_scores"))

\* pids after the --ids narrowing (run.py 635-637); an empty filter set is
\* falsy and narrows nothing.
DeepevalPids(data, filter_pids) ==
  IF filter_pids # None /\ filter_pids[1] # {}
  THEN SelectSeq(data.order, LAMBDA pid : pid \in filter_pids[1])
  ELSE data.order

\* to_score of one model (run.py 639-647).
ToScore(data, force, filter_pids) ==
  SelectSeq(DeepevalPids(data, filter_pids), LAMBDA pid :
    LET run == latest_run(data, pid)
    IN  ~RunUnusable(run) /\ ~DeepevalSkips(run, force))

DeepevalSkipped(data, force, filter_pids) ==
  SelectSeq(DeepevalPids(data, filter_pids), LAMBDA pid :
    LET run == latest_run(data, pid)
    IN  ~RunUnusable(run) /\ DeepevalSkips(run, force))

\* A faulty variant of ExcludeJudge: the judge model is scored like any
\* other.
ExcludeNone(names, judge_model) == names

\* The models deepeval goes through (run.py 604-606): the judge model is
\* left out.
ExcludeJudge(names, judge_model) == SelectSeq(names, LAMBDA m : m # judge_model)

\* cmd_deepeval up to its loop over the models (run.py 589-627).
cmd_deepeval(models, ids, force, cfg, file) ==
  LET names == IF models # <<>> THEN models ELSE list_evaluated_models
      kept == ExcludeJudge(names, cfg.judge)
      ps == IF ids # None THEN filter_prompts(file, ids, None, None) ELSE file
      filter_pids == IF ids # None
                     THEN Some({ ps[i].id : i \in 1..Len(ps) })
                     ELSE None
  IN  /\ Launch([NoCmd EXCEPT !.name = "deepeval", !.flag = force, !.cfg = cfg,
                              !.eval_file = file,
                              !.file = ps, !.models = kept,
                              !.args_models = models, !.args_ids = ids,
                              !.filter_pids = filter_pids])
      /\ IF names = <<>>
         THEN Finish("noop") /\ UNCHANGED model_names
         ELSE pc' = "deepeval_model" /\ model_names' = kept /\ UNCHANGED result
      /\ UNCHANGED << report, peer, disk, faults, model_data, prompts, todo >>

\* The head of one pass of the loop over the models (run.py 629-653).
cmd_deepeval_model ==
  /\ pc = "deepeval_model"
  /\ model_names # <<>>
  /\ LET m == Head(model_names)
         data == load_model_results(m)
         to_score == ToScore(data, cmd.flag, cmd.filter_pids)
         nskip == Len(DeepevalSkipped(data, cmd.flag, cmd.filter_pids))
     IN  /\ model_names' = Tail(model_names)
         /\ IF LoadFails(m)
            THEN Finish("exception") /\ UNCHANGED << cmd, model_data, todo, totals >>
            ELSE IF data.order = <<>>
            THEN UNCHANGED << pc, result, cmd, model_data, todo, totals >>
            ELSE /\ totals' = [totals EXCEPT !.skipped = @ + nskip]
                 /\ IF to_score = <<>>
                    THEN UNCHANGED << pc, result, cmd, model_data, todo >>
                    ELSE /\ cmd' = [cmd EXCEPT !.model = m]
                         /\ model_data' = data
                         /\ todo' = to_score
                         /\ pc' = "deepeval_cand"
                         /\ UNCHANGED result
  /\ UNCHANGED << report, peer, disk, now, ncmd, faults, prompts, calls, writes, disk0, prev >>

\* One pass of the loop over to_score (run.py 655-697); after the last one
\* the save of line 699 follows.
cmd_deepeval_candidate ==
  /\ pc = "deepeval_cand"
  /\ LET pid == Head(todo)
         run == latest_run(model_data, pid)
     IN  IF ~HasPrompt(cmd.file, pid)
         THEN UNCHANGED << faults, model_data, totals, calls >>
         ELSE \E de \in DeepevalOutcomes(cmd.cfg.metrics) :
                /\ faults + DeepevalFault(de, TRUE) <= MaxFaults
                /\ faults' = faults + DeepevalFault(de, TRUE)
                /\ calls' = [calls EXCEPT !.deepeval = Append(@, [model |-> cmd.model, pid |-> pid, out |-> de])]
                /\ IF de.raised
                   THEN /\ totals' = [totals EXCEPT !.errors = @ + 1]
                        /\ UNCHANGED model_data
                   ELSE /\ model_data' = AppendRun(model_data, pid,
                                           DeepevalEntry(run, de, now))
                        /\ totals' = IF de.deepeval_avg # None
                                     THEN [totals EXCEPT !.done = @ + 1]
                                     ELSE [totals EXCEPT !.errors = @ + 1]
  /\ todo' = Tail(todo)
  /\ pc' = AfterCandidate(Tail(todo), "deepeval_cand")
  /\ UNCHANGED << report, peer, disk, now, ncmd, cmd, prompts, model_names, writes, disk0,
                  result, prev >>

\* The end of cmd_deepeval (run.py 701-706).
cmd_deepeval_done ==
  /\ pc = "deepeval_model"
  /\ model_names = <<>>
  /\ FinishWithDashboard
  /\ UNCHANGED << peer, disk, now, ncmd, faults, cmd, model_data, prompts,
                  model_names, todo, totals, calls, writes, disk0 >>

\* ------------------------------------------------- a second invocation
\* A second process runs cmd_eval while the command runs: nothing in
\* run.py takes a lock or looks for another process.  peer.loaded keeps
\* what it loaded.  Its save is one step.
peer_cmd_eval(m, flt, rerun, cfg, file) ==
  LET ps == filter_prompts(file, flt.ids, flt.categories, flt.difficulty)
      data == load_model_results(m)
      rest == Remaining(ps, data, rerun)
  IN  /\ peer.pc = "none"
      /\ pc \notin {"idle", "exit"}
      /\ m \in ModelsCfg
      /\ ps # <<>>
      /\ ~LoadFails(m)
      /\ rest # <<>>
      /\ ~ProviderInitFails(cfg, m)
      /\ peer' = [pc |-> "loop", model |-> m, cfg |-> cfg,
                  has_judge |-> JudgeProvider(cfg, m),
                  loaded |-> data, model_data |-> data, prompts |-> rest]
      /\ UNCHANGED << report, disk, now, ncmd, faults, pc, cmd, model_data,
                      prompts, model_names, todo, totals, calls, writes, disk0,
                      result, prev >>

\* One pass of the loop of the second invocation up to the append
\* (run.py 181-246).
peer_eval_prompt ==
  /\ peer.pc = "loop"
  /\ LET pmeta == Head(peer.prompts)
         judged(out) == out.ok /\ peer.has_judge
         scored(out) == out.ok /\ peer.cfg.deepeval_enabled
     IN  \E out \in ProviderOutcomes :
         \E jr \in (IF judged(out) THEN JudgeOutcomes ELSE {NoJudge}) :
         \E de \in (IF scored(out)
                    THEN DeepevalOutcomes(peer.cfg.metrics) ELSE {NoDeepeval}) :
           LET auto == check_response(pmeta, out.content)
               entry == IF out.ok
                        THEN SuccessEntry(peer.model, peer.cfg.judge, now, out,
                                          auto, jr, de)
                        ELSE ErrorEntry(peer.model, peer.cfg.judge, now, out)
               cost == ProviderFault(out) + JudgeFault(jr)
                       + DeepevalFault(de, scored(out))
           IN  /\ faults + cost <= MaxFaults
               /\ faults' = faults + cost
               /\ peer' = [peer EXCEPT
                    !.model_data = AppendRun(@, pmeta.id, entry),
                    !.prompts = Tail(@),
                    !.pc = "save"]
  /\ UNCHANGED << report, disk, now, ncmd, pc, cmd, model_data, prompts,
                  model_names, todo, totals, calls, writes, disk0, result, prev >>

\* save_model_results of the second invocation (run.py 71-75, 247).
peer_save_model_results ==
  /\ peer.pc = "save"
  /\ LET data == [peer.model_data EXCEPT !.updated = Some(now)]
     IN  /\ disk' = [disk EXCEPT ![peer.model] = data]
         /\ peer' = [peer EXCEPT
              !.model_data = data,
              !.pc = IF peer.prompts = <<>> THEN "done" ELSE "loop"]
  /\ UNCHANGED << report, now, ncmd, faults, pc, cmd, model_data, prompts,
                  model_names, todo, totals, calls, writes, disk0, result, prev >>

PeerSteps == peer_eval_prompt \/ peer_save_model_results

\* ------------------------------------------------------- specifications
CfgJ ==
  [judge |-> "j", deepeval_enabled |-> FALSE, metrics |-> EnabledMetrics,
   keyless |-> {}]
CfgB ==
  [judge |-> "b", deepeval_enabled |-> FALSE, metrics |-> EnabledMetrics,
   keyless |-> {}]
\* A configuration that enables two metrics the adapter knows and one it
\* does not know.
CfgMetrics ==
  [judge |-> "j", deepeval_enabled |-> TRUE,
   metrics |-> <<"correctness", "fluency", "coherence">>, keyless |-> {}]
NoFilter == [ids |-> None, categories |-> None, difficulty |-> None]
FullFile == <<P1, P2>>

SaveSteps == save_model_results_open \/ save_model_results_dump

EvalSteps == cmd_eval_prompt \/ cmd_eval_done

RejudgeSteps == cmd_rejudge_model \/ cmd_rejudge_candidate \/ cmd_rejudge_done

DeepevalSteps == cmd_deepeval_model \/ cmd_deepeval_candidate \/ cmd_deepeval_done

\* The commands of the re-scoring scope: every rejudge and deepeval
\* invocation over the argument sets below, and the eval invocations that
\* grow a history next to them.
LaunchRescore ==
  /\ ncmd < MaxCmds
  /\ \/ \E force \in BOOLEAN, cfg \in { CfgJ, CfgB }, file \in EvalFiles :
           cmd_rejudge(<<>>, force, cfg, file)
     \/ \E ids \in { None, <<"P1">> }, force \in BOOLEAN :
           cmd_deepeval(<<>>, ids, force, CfgJ, FullFile)
     \/ \E ids \in { None, <<"P1">> }, force \in BOOLEAN :
           cmd_deepeval(<<>>, ids, force, CfgJ, <<P2>>)
     \/ \E m \in ModelNames : cmd_eval(m, NoFilter, TRUE, CfgJ, FullFile)

Next ==
  \/ LaunchRescore
  \/ EvalSteps
  \/ RejudgeSteps
  \/ DeepevalSteps
  \/ SaveSteps
  \/ Crash
  \/ Exit

Spec == Init /\ [][Next]_vars

\* The commands of the eval scope: eval over every filter, with and
\* without --rerun, under every configuration.
LaunchEval ==
  /\ ncmd < MaxEvalCmds
  /\ \E m \in ModelNames, flt \in Filters, rerun \in BOOLEAN, cfg \in Configs :
        cmd_eval(m, flt, rerun, cfg, FullFile)

NextEval ==
  \/ LaunchEval
  \/ EvalSteps
  \/ SaveSteps
  \/ Crash
  \/ Exit

SpecEval == Init /\ [][NextEval]_vars

\* The commands of the configuration scope: eval and rejudge under every
\* judge set-up, sound or broken, eval also for a model that is not in
\* config["models"].
JudgeConfigs == { CfgJ, CfgB } \cup BrokenConfigs
LaunchConfig ==
  /\ ncmd < MaxConfigCmds
  /\ \/ \E m \in ModelNames \cup {"x"}, rerun \in BOOLEAN, cfg \in JudgeConfigs :
           cmd_eval(m, NoFilter, rerun, cfg, FullFile)
     \/ \E force \in BOOLEAN, cfg \in JudgeConfigs :
           cmd_rejudge(<<>>, force, cfg, FullFile)

NextConfig ==
  \/ LaunchConfig
  \/ EvalSteps
  \/ RejudgeSteps
  \/ SaveSteps
  \/ Crash
  \/ Exit

SpecConfig == Init /\ [][NextConfig]_vars

\* The concurrent scope: an eval of model "a" with --rerun, and a second
\* eval of the same model that starts while the first one runs.
IdFilters == { flt \in Filters : flt.ids # None }
LaunchConcurrent ==
  /\ ncmd < MaxConcurrentCmds
  /\ \E flt \in IdFilters : cmd_eval("a", flt, TRUE, CfgJ, FullFile)

LaunchPeer ==
  \E flt \in IdFilters : peer_cmd_eval(cmd.model, flt, TRUE, CfgJ, FullFile)

NextConcurrent ==
  \/ LaunchConcurrent
  \/ LaunchPeer
  \/ EvalSteps
  \/ SaveSteps
  \/ PeerSteps
  \/ Exit

SpecConcurrent == Init /\ [][NextConcurrent]_vars

\* The aggregation scope: compare and dashboard over stores that earlier
\* eval commands (with and without --rerun) left behind.
\* A judge that gave the best and the worst score.
JudgeFive == [judge_score |-> Some(5), judge_rationale |-> "great"]
JudgeOne == [judge_score |-> Some(1), judge_rationale |-> "poor"]
\* A provider that answered with an empty text.
ProviderEmpty ==
  [ok |-> TRUE, content |-> "", input_tokens |-> Some(3),
   output_tokens |-> Some(1), latency_s |-> 1, error |-> ""]
DeepevalOf(score) ==
  score_with_deepeval(EnabledMetrics, [n \in Range(EnabledMetrics) |-> score])

\* The entries eval can have stored for prompt pmeta of model m.
StoredEntries(m, pmeta) ==
  << SuccessEntry(m, "j", 0, ProviderOk, check_response(pmeta, "r1"),
                  JudgeFive, DeepevalOf(Some(10000))),
     SuccessEntry(m, "j", 0, ProviderEmpty, check_response(pmeta, ""),
                  JudgeOne, DeepevalOf(Some(0))),
     SuccessEntry(m, "j", 0, ProviderOk, check_response(pmeta, "r1"),
                  JudgeScored, NoDeepeval),
     SuccessEntry(m, "j", 0, ProviderOk, check_response(pmeta, "r1"),
                  JudgeFailed, DeepevalOf(Some(8000))),
     SuccessEntry(m, "j", 0, ProviderOk, check_response(pmeta, "r1"),
                  JudgeFailed, DeepevalOf(None)),
     ErrorEntry(m, "j", 0, ProviderHttpError),
     ErrorEntry(m, "j", 0, ProviderTimeout) >>

\* Histories as positions in StoredEntries: no run, one run, or two runs
\* (the second one appended by eval --rerun).
HistoryShapes ==
  { <<>> } \cup { <<i>> : i \in 1..7 }
  \cup { <<1, 2>>, <<2, 1>>, <<1, 6>>, <<3, 4>> }
HistoryShapesB == { <<>>, <<1>>, <<2>>, <<4>>, <<5>>, <<6>> }

HistoryOf(m, pmeta, shape) ==
  [i \in 1..Len(shape) |-> StoredEntries(m, pmeta)[shape[i]]]

\* The file of model m with the histories h1 for P1 and h2 for P2.
StoredDoc(m, h1, h2) ==
  [FreshResults(m, 0) EXCEPT
     !.updated = Some(0),
     !.order = SelectSeq(<<"P1", "P2">>,
                 LAMBDA pid : (IF pid = "P1" THEN h1 ELSE h2) # <<>>),
     !.runs = [pid \in Pids |->
                 IF pid = "P1" THEN HistoryOf(m, P1, h1)
                 ELSE HistoryOf(m, P2, h2)]]

StoredFiles(m, shapes) ==
  { StoredDoc(m, h[1], h[2]) :
      h \in { g \in shapes \X shapes : g[1] # <<>> \/ g[2] # <<>> } }
  \cup { NoFile, Partial }

AggregateStores ==
  { [m \in ModelNames |-> IF m = "a" THEN fa ELSE fb] :
      fa \in StoredFiles("a", HistoryShapes),
      fb \in StoredFiles("b", HistoryShapesB) }

InitAggregate ==
  /\ disk \in AggregateStores
  /\ now = 1
  /\ ncmd = 0
  /\ faults = 0
  /\ pc = "idle"
  /\ cmd = NoCmd
  /\ model_data = NoFile
  /\ prompts = <<>>
  /\ model_names = <<>>
  /\ todo = <<>>
  /\ totals = NoTotals
  /\ calls = NoCalls
  /\ writes = <<>>
  /\ disk0 = NoDisk
  /\ result = ""
  /\ prev = NoCmd
  /\ peer = NoPeer
  /\ report = None

CompareFilters == { NoFilter, [NoFilter EXCEPT !.ids = <<"P1">>] }
LaunchAggregate ==
  /\ ncmd < MaxAggregateCmds
  /\ \/ \E models \in { <<>>, <<"b", "a">> }, flt \in CompareFilters,
          save \in BOOLEAN, w \in WeightChoices :
          cmd_compare(models, flt, save, w, FullFile)
     \/ \E judge \in JudgeChoices, w \in WeightChoices :
          cmd_dashboard(judge, w, FullFile)

NextAggregate ==
  \/ LaunchAggregate
  \/ Exit

SpecAggregate == InitAggregate /\ [][NextAggregate]_vars

\* The listing scope: the models command over the stores of the
\* aggregation scope, with and without a comparison.json in results/.
LaunchList ==
  /\ ncmd < MaxListCmds
  /\ \E others \in SUBSET {"comparison"} : cmd_models(others)

NextList ==
  \/ LaunchList
  \/ Exit

SpecList == InitAggregate /\ [][NextList]_vars

\* The category scope: the dashboard over stores that eval left behind
\* under the configuration with two known metrics, for the eval set whose
\* prompts are of two categories and for one whose prompts share a
\* category.
SameCategoryFile == <<P1, [P2 EXCEPT !.category = "Coding"]>>
DeepevalBoth(correctness, coherence) ==
  score_with_deepeval(CfgMetrics.metrics,
                      [n \in Range(CfgMetrics.metrics) |->
                         IF n = "coherence" THEN coherence ELSE correctness])

\* The entries eval can have stored for prompt pmeta of model m.
CategoryEntries(m, pmeta) ==
  << SuccessEntry(m, "j", 0, ProviderOk, check_response(pmeta, "r1"),
                  JudgeFive, DeepevalBoth(Some(8000), Some(5124))),
     SuccessEntry(m, "j", 0, ProviderOk, check_response(pmeta, "r1"),
                  JudgeScored, DeepevalBoth(Some(8000), None)),
     SuccessEntry(m, "j", 0, ProviderOk, check_response(pmeta, "r1"),
                  JudgeFailed, DeepevalBoth(None, Some(5124))),
     SuccessEntry(m, "j", 0, ProviderOk, check_response(pmeta, "r1"),
                  JudgeScored, DeepevalBoth(None, None)),
     ErrorEntry(m, "j", 0, ProviderHttpError) >>

\* The file of model m with at most one run per prompt: e1 and e2 are
\* positions in CategoryEntries, 0 for no run.
CategoryDoc(m, e1, e2) ==
  [FreshResults(m, 0) EXCEPT
     !.updated = Some(0),
     !.order = SelectSeq(<<"P1", "P2">>,
                 LAMBDA pid : (IF pid = "P1" THEN e1 ELSE e2) # 0),
     !.runs = [pid \in Pids |->
                 LET e == IF pid = "P1" THEN e1 ELSE e2
                     pmeta == IF pid = "P1" THEN P1 ELSE P2
                 IN  IF e = 0 THEN <<>> ELSE <<CategoryEntries(m, pmeta)[e]>>]]

CategoryStores ==
  { [m \in ModelNames |-> IF m = "a" THEN fa ELSE fb] :
      fa \in { CategoryDoc("a", e[1], e[2]) :
                 e \in { g \in (0..5) \X (0..5) : g # <<0, 0>> } },
      fb \in { CategoryDoc("b", e[1], e[2]) :
                 e \in { g \in (0..2) \X (0..2) : g # <<0, 0>> } }
              \cup { NoFile } }

InitCategory ==
  /\ disk \in CategoryStores
  /\ now = 1
  /\ ncmd = 0
  /\ faults = 0
  /\ pc = "idle"
  /\ cmd = NoCmd
  /\ model_data = NoFile
  /\ prompts = <<>>
  /\ model_names = <<>>
  /\ todo = <<>>
  /\ totals = NoTotals
  /\ calls = NoCalls
  /\ writes = <<>>
  /\ disk0 = NoDisk
  /\ result = ""
  /\ prev = NoCmd
  /\ peer = NoPeer
  /\ report = None

LaunchCategory ==
  /\ ncmd < MaxCategoryCmds
  /\ \E w \in WeightChoices, file \in { FullFile, SameCategoryFile } :
        cmd_dashboard("j", w, file)

NextCategory ==
  \/ LaunchCategory
  \/ Exit

SpecCategory == InitCategory /\ [][NextCategory]_vars

\* The ordering scope: rejudge and deepeval, over all models and over the
\* models the caller names, on stores whose prompt ids were inserted in
\* either order.
\* The file of m after `eval m --ids order[1]`, `eval m --ids order[2]`,
\* ... under judge j.
OrderedDoc(m, order) ==
  LET entry(pid) ==
        SuccessEntry(m, "j", 0, ProviderOk,
                     check_response(IF pid = "P1" THEN P1 ELSE P2, "r1"),
                     JudgeScored, NoDeepeval)
      first == AppendRun([FreshResults(m, 0) EXCEPT !.updated = Some(0)],
                         order[1], entry(order[1]))
  IN  IF Len(order) = 1 THEN first
      ELSE AppendRun(first, order[2], entry(order[2]))

InsertionOrders == { <<"P1", "P2">>, <<"P2", "P1">>, <<"P2">> }
OrderStores ==
  { [m \in ModelNames |-> IF m = "a" THEN fa ELSE fb] :
      fa \in { OrderedDoc("a", o) : o \in InsertionOrders },
      fb \in { OrderedDoc("b", o) : o \in InsertionOrders } \cup { NoFile } }

InitOrder ==
  /\ disk \in OrderStores
  /\ now = 1
  /\ ncmd = 0
  /\ faults = 0
  /\ pc = "idle"
  /\ cmd = NoCmd
  /\ model_data = NoFile
  /\ prompts = <<>>
  /\ model_names = <<>>
  /\ todo = <<>>
  /\ totals = NoTotals
  /\ calls = NoCalls
  /\ writes = <<>>
  /\ disk0 = NoDisk
  /\ result = ""
  /\ prev = NoCmd
  /\ peer = NoPeer
  /\ report = None

ModelArgs == { <<>>, <<"b", "a">>, <<"a">> }
LaunchOrder ==
  /\ ncmd < MaxOrderCmds
  /\ \/ \E models \in ModelArgs, force \in BOOLEAN, cfg \in { CfgJ, CfgB } :
          cmd_rejudge(models, force, cfg, FullFile)
     \/ \E models \in ModelArgs, ids \in { None, <<"P1">> }, force \in BOOLEAN :
          cmd_deepeval(models, ids, force, CfgJ, FullFile)

NextOrder ==
  \/ LaunchOrder
  \/ RejudgeSteps
  \/ DeepevalSteps
  \/ SaveSteps
  \/ Exit

SpecOrder == InitOrder /\ [][NextOrder]_vars

\* The scorer scope: deepeval, and eval with the inline scorer, of model a under a
\* configuration that enables two metrics the adapter knows and one it does
\* not know, from the stores of the ordering scope.
LaunchScorer ==
  /\ ncmd < MaxScorerCmds
  /\ \/ \E force \in BOOLEAN :
          cmd_deepeval(<<"a">>, None, force, CfgMetrics, FullFile)
     \/ \E rerun \in BOOLEAN :
          cmd_eval("a", NoFilter, rerun, CfgMetrics, FullFile)

NextScorer ==
  \/ LaunchScorer
  \/ EvalSteps
  \/ DeepevalSteps
  \/ SaveSteps
  \/ Exit

SpecScorer == InitOrder /\ [][NextScorer]_vars

\* The frame scope: eval, rejudge and deepeval under a judge that has no
\* result set (j) and under one that has (b), over all models and over the
\* models the caller names, from the stores of the ordering scope.
LaunchFrame ==
  /\ ncmd < MaxFrameCmds
  /\ \/ \E m \in ModelNames, cfg \in { CfgJ, CfgB } :
          cmd_eval(m, NoFilter, TRUE, cfg, FullFile)
     \/ \E models \in ModelArgs, force \in BOOLEAN, cfg \in { CfgJ, CfgB } :
          cmd_rejudge(models, force, cfg, FullFile)
     \/ \E models \in ModelArgs, force \in BOOLEAN, cfg \in { CfgJ, CfgB } :
          cmd_deepeval(models, None, force, cfg, FullFile)

NextFrame ==
  \/ LaunchFrame
  \/ EvalSteps
  \/ RejudgeSteps
  \/ DeepevalSteps
  \/ SaveSteps
  \/ Exit

SpecFrame == InitOrder /\ [][NextFrame]_vars

\* The retry scope: rejudge after rejudge, with and without --force, under
\* either judge and either eval set, from the stores of the ordering scope.
\* Every entry stamped later than 0 is one a rejudge appended.
LaunchRetry ==
  /\ ncmd < MaxRetryCmds
  /\ \E force \in BOOLEAN, cfg \in { CfgJ, CfgB }, file \in EvalFiles :
        cmd_rejudge(<<>>, force, cfg, file)

NextRetry ==
  \/ LaunchRetry
  \/ RejudgeSteps
  \/ SaveSteps
  \/ Exit

SpecRetry == InitOrder /\ [][NextRetry]_vars

\* ------------------------------------------------------------- properties
Last(q) == q[Len(q)]
NoDup(q) == \A i, j \in 1..Len(q) : q[i] = q[j] => i = j

\* The fields of an entry other than its timestamp.
CopiedFields ==
  { "api_model", "content", "latency_s", "input_tokens", "output_tokens",
    "auto_checks", "judge_score", "judge_rationale", "judge_model",
    "deepeval_scores", "deepeval_avg", "error" }
\* The scoring fields a re-scoring command refreshes.
Refreshed(name) ==
  IF name = "rejudge"
  THEN { "judge_score", "judge_rationale", "judge_model" }
  ELSE { "deepeval_scores", "deepeval_avg" }

Rescoring == cmd.name \in {"rejudge", "deepeval"}
\* The running re-scoring command has appended, in memory, an entry to the
\* history of p of the model it is processing.
AppendedTo(p) ==
  /\ Rescoring
  /\ model_data.kind = "doc"
  /\ Len(model_data.runs[p]) = Len(RunsOf(disk0[cmd.model], p)) + 1

\* C1: append-only history.  Whatever the commands, a persisted history
\* always has the history held when the command started as a prefix, and a
\* step changes a history in memory only by appending exactly one entry.
AppendOnlyStep ==
  /\ \A m \in ModelNames, p \in Pids :
       (pc' # "idle" /\ disk'[m].kind = "doc")
         => IsPrefix(RunsOf(disk0'[m], p), disk'[m].runs[p])
  /\ (/\ model_data.kind = "doc"
      /\ model_data'.kind = "doc"
      /\ model_data'.model_name = model_data.model_name)
       => \A p \in Pids :
            \/ model_data'.runs[p] = model_data.runs[p]
            \/ /\ Len(model_data'.runs[p]) = Len(model_data.runs[p]) + 1
               /\ IsPrefix(model_data.runs[p], model_data'.runs[p])
C1_AppendOnly == [][AppendOnlyStep]_vars

\* A command returned after lengthening a stored history that was not empty.
C1_Witness ==
  /\ pc = "exit"
  /\ result = "done"
  /\ \E m \in ModelNames, p \in Pids :
       /\ RunsOf(disk0[m], p) # <<>>
       /\ Len(RunsOf(disk[m], p)) = Len(RunsOf(disk0[m], p)) + 1

\* rejudge returned normally.
RejudgeDone == pc = "exit" /\ cmd.name = "rejudge" /\ result = "done"
\* rejudge went through the stored runs of m.
Processed(m) ==
  /\ m \in Range(cmd.models)
  /\ m # cmd.cfg.judge
  /\ disk0[m].kind = "doc"
\* The latest run of p held a score given by the current judge.
ScoredByCurrent(m, p) ==
  LET run == latest_run(disk0[m], p)
  IN  /\ Get(run, "judge_model") = Some(cmd.cfg.judge)
      /\ Get(run, "judge_score") # None

\* C2 as stated: without --force a prompt already scored by the current
\* judge gets no entry and is counted once as skipped; with --force it gets
\* exactly one new entry.
C2_AsStated ==
  RejudgeDone =>
    /\ \A m \in ModelNames, p \in Pids :
         (Processed(m) /\ ScoredByCurrent(m, p)) =>
           Len(RunsOf(disk[m], p)) =
             Len(RunsOf(disk0[m], p)) + (IF cmd.flag THEN 1 ELSE 0)
    /\ ~cmd.flag =>
         totals.skipped =
           Cardinality({ mp \in ModelNames \X Pids :
                           Processed(mp[1]) /\ ScoredByCurrent(mp[1], mp[2]) })

\* C2, amended: as stated, but with --force the one new entry is appended
\* only when the prompt id is still in the eval set; when it is not, the
\* history stays as it was.
C2_RejudgeForce ==
  RejudgeDone =>
    /\ \A m \in ModelNames, p \in Pids :
         (Processed(m) /\ ScoredByCurrent(m, p)) =>
           IF cmd.flag /\ HasPrompt(cmd.file, p)
           THEN /\ Len(RunsOf(disk[m], p)) = Len(RunsOf(disk0[m], p)) + 1
                /\ IsPrefix(RunsOf(disk0[m], p), RunsOf(disk[m], p))
           ELSE RunsOf(disk[m], p) = RunsOf(disk0[m], p)
    /\ ~cmd.flag =>
         totals.skipped =
           Cardinality({ mp \in ModelNames \X Pids :
                           Processed(mp[1]) /\ ScoredByCurrent(mp[1], mp[2]) })

\* rejudge --force returned after re-judging a prompt the current judge had
\* already scored.
C2_Witness ==
  /\ RejudgeDone
  /\ cmd.flag
  /\ \E m \in ModelNames, p \in Pids :
       /\ Processed(m)
       /\ ScoredByCurrent(m, p)
       /\ Len(RunsOf(disk[m], p)) = Len(RunsOf(disk0[m], p)) + 1

\* C3: copy-forward.  An entry appended by rejudge or deepeval equals the
\* prior latest entry on every field but the timestamp and the scoring
\* fields the command refreshes.
C3_CopyForward ==
  \A p \in Pids :
    AppendedTo(p) =>
      \A f \in CopiedFields \ Refreshed(cmd.name) :
        Get(Last(model_data.runs[p]), f) = Get(latest_run(disk0[cmd.model], p), f)

\* C4: an entry appended by rejudge has the content, latency and token
\* counts of the entry that was latest before it.
C4_RejudgeKeepsResponse ==
  \A p \in Pids :
    (cmd.name = "rejudge" /\ AppendedTo(p)) =>
      \A f \in { "content", "latency_s", "input_tokens", "output_tokens" } :
        Get(Last(model_data.runs[p]), f) = Get(latest_run(disk0[cmd.model], p), f)

\* rejudge has appended an entry to a history whose latest run held a
\* response and token counts.
C4_Witness ==
  \E p \in Pids :
    /\ cmd.name = "rejudge"
    /\ AppendedTo(p)
    /\ latest_run(disk0[cmd.model], p).content = "r1"
    /\ Get(latest_run(disk0[cmd.model], p), "output_tokens") = Some(8)

\* The running command repeats the one before it, which was a re-scoring
\* without --force that got a score from every adapter call.
Repeats == pc # "idle" /\ prev # NoCmd /\ [cmd EXCEPT !.model = ""] = prev

\* C5: idempotence.  The repeated command calls no adapter and appends no
\* entry to any history, in memory or on disk.
C5_Idempotent ==
  Repeats =>
    /\ calls.judge = <<>>
    /\ calls.deepeval = <<>>
    /\ model_data.kind = "doc" => model_data.runs = disk0[model_data.model_name].runs
    /\ pc = "exit" =>
         \A m \in ModelNames, p \in Pids : RunsOf(disk[m], p) = RunsOf(disk0[m], p)

\* The repeated command returned, and the one before it had appended an entry.
C5_Witness ==
  /\ Repeats
  /\ pc = "exit"
  /\ result = "done"
  /\ \E m \in ModelNames, p \in Pids :
       /\ RunsOf(disk[m], p) # <<>>
       /\ latest_run(disk[m], p).timestamp = now - 1

\* C6: crash durability.  At every point of an eval pass the file of the
\* model is a complete document that holds the entries of every save that
\* completed, so that a crash there loses the in-flight entry at most.
C6_CrashDurable ==
  (cmd.name = "eval" /\ pc # "idle") =>
    /\ disk[cmd.model].kind # "partial"
    /\ \A p \in Pids : IsPrefix(RunsOf(disk0[cmd.model], p), RunsOf(disk[cmd.model], p))
    /\ \A i \in 1..Len(writes) :
         Len(RunsOf(disk[cmd.model], cmd.prompts[i].id))
           = Len(RunsOf(disk0[cmd.model], cmd.prompts[i].id)) + 1

\* C7: batch persistence.  A re-scoring command writes a model's file at
\* most once, starts the write only when no candidate of the model is
\* left, and while it goes through the candidates the file is as it was
\* when the command started.
C7_BatchPersistence ==
  Rescoring =>
    /\ NoDup(writes)
    /\ pc \in {"rejudge_cand", "deepeval_cand"} =>
         /\ disk[cmd.model] = disk0[cmd.model]
         /\ cmd.model \notin Range(writes)
    /\ pc \in {"save_open", "save_dump"} => todo = <<>>

\* Between two candidates of a model: an entry is appended in memory, a
\* candidate is left, and the file is untouched.
C7_Witness ==
  /\ pc \in {"rejudge_cand", "deepeval_cand"}
  /\ todo # <<>>
  /\ \E p \in Pids : AppendedTo(p)

\* An eval pass over a model that had no runs.
FreshEval ==
  /\ cmd.name = "eval"
  /\ pc # "idle"
  /\ result \in {"", "done"}
  /\ \A p \in Pids : RunsOf(disk0[cmd.model], p) = <<>>

\* C8: eval against a model without runs.  After the k-th save the file
\* holds exactly one entry for each of the first k prompts of the filtered
\* set, in that order, and nothing else; a save follows every prompt; the
\* pass returns after as many saves as the set has prompts.
C8_EvalFresh ==
  FreshEval =>
    LET m == cmd.model
        ids == PromptIds(cmd.prompts)
        k == Len(writes)
        saving == IF pc \in {"save_open", "save_dump"} THEN 1 ELSE 0
    IN  /\ k = Len(ids) - Len(prompts) - saving
        /\ (k > 0 /\ pc # "save_dump") =>
             /\ disk[m].kind = "doc"
             /\ disk[m].order = SubSeq(ids, 1, k)
             /\ \A p \in Pids :
                  Len(disk[m].runs[p]) = IF p \in Range(SubSeq(ids, 1, k)) THEN 1 ELSE 0
        /\ pc = "exit" => k = Len(ids)

\* Such a pass over two prompts returned, one provider call having failed.
C8_Witness ==
  /\ FreshEval
  /\ pc = "exit"
  /\ Len(cmd.prompts) = 2
  /\ \E i \in 1..Len(calls.provider) : ~calls.provider[i].out.ok

EvalRunning == cmd.name = "eval" /\ pc # "idle" /\ result \in {"", "done"}

\* C9: provider failure isolation.  The entry of a failed provider call has
\* empty content, the error, auto_checks not passed with the one flag
\* API_ERROR and no judge score; the judge is not called for it; every
\* prompt is called once, in order, and the pass goes through all of them.
C9_ProviderFailure ==
  EvalRunning =>
    /\ \A i \in 1..Len(calls.provider) :
         ~calls.provider[i].out.ok =>
           LET e == Last(model_data.runs[calls.provider[i].pid])
           IN  /\ "error" \in e.keys
               /\ e.error = Some(calls.provider[i].out.error)
               /\ e.content = ""
               /\ e.auto_checks = Some([flags |-> <<"API_ERROR">>,
                                        auto_scores |-> <<>>, passed |-> FALSE])
               /\ Get(e, "judge_score") = None
               /\ \A j \in 1..Len(calls.judge) :
                    calls.judge[j].pid # calls.provider[i].pid
    /\ PromptIds(SubSeq(cmd.prompts, 1, Len(calls.provider)))
         = [i \in 1..Len(calls.provider) |-> calls.provider[i].pid]
    /\ pc = "exit" =>
         /\ Len(calls.provider) = Len(cmd.prompts)
         /\ Len(writes) = Len(cmd.prompts)

\* The pass returned after a failed call on its first prompt and a
\* successful one on its second.
C9_Witness ==
  /\ EvalRunning
  /\ pc = "exit"
  /\ Len(calls.provider) = 2
  /\ ~calls.provider[1].out.ok
  /\ calls.provider[2].out.ok

\* The prompt of the running pass that has id pid.
PromptOf(pid) == CHOOSE q \in Range(cmd.prompts) : q.id = pid

\* The provider outcome of the call made for pid.
ProviderOutcomeOf(pid) ==
  (CHOOSE c \in Range(calls.provider) : c.pid = pid).out

\* C10: judge failure during eval.  When the judge returns no score for a
\* completed response, the entry keeps the response and its auto-check
\* result, has no error and no judge score, and the pass goes through all
\* its prompts.
C10_JudgeFailure ==
  EvalRunning =>
    /\ \A i \in 1..Len(calls.judge) :
         calls.judge[i].out.judge_score = None =>
           LET pid == calls.judge[i].pid
               e == Last(model_data.runs[pid])
               out == ProviderOutcomeOf(pid)
           IN  /\ out.ok
               /\ e.content = out.content
               /\ e.auto_checks = Some(check_response(PromptOf(pid), out.content))
               /\ "error" \notin e.keys
               /\ Get(e, "judge_score") = None
    /\ pc = "exit" =>
         /\ Len(calls.provider) = Len(cmd.prompts)
         /\ Len(writes) = Len(cmd.prompts)

\* The pass over two prompts returned, the judge having failed on the first.
C10_Witness ==
  /\ EvalRunning
  /\ pc = "exit"
  /\ Len(calls.provider) = 2
  /\ \E i \in 1..Len(calls.judge) :
       calls.judge[i].pid = cmd.prompts[1].id /\ calls.judge[i].out.judge_score = None

\* An eval command that got past its filter and its load.
EvalLoaded ==
  /\ cmd.name = "eval"
  /\ pc # "idle"
  /\ result \in {"", "done", "noop"}
\* The model of the running eval had a run of p when the command started.
HadRun(p) == RunsOf(disk0[cmd.model], p) # <<>>

\* C11: eval skip versus rerun.  Without --rerun a prompt that already has
\* a run gets no provider call and no entry, and when every prompt the
\* filter selected has a run the command returns at once with no call and
\* no write; with --rerun each such prompt gets exactly one new entry after
\* the earlier ones.
C11_SkipOrRerun ==
  EvalLoaded =>
    /\ ~cmd.flag =>
         \A p \in Pids :
           HadRun(p) =>
             /\ \A i \in 1..Len(calls.provider) : calls.provider[i].pid # p
             /\ model_data.kind = "doc" =>
                  model_data.runs[p] = RunsOf(disk0[cmd.model], p)
             /\ pc = "exit" =>
                  RunsOf(disk[cmd.model], p) = RunsOf(disk0[cmd.model], p)
    /\ (~cmd.flag /\ \A i \in 1..Len(cmd.file) : HadRun(cmd.file[i].id)) =>
         /\ pc = "exit"
         /\ calls = NoCalls
         /\ writes = <<>>
         /\ disk = disk0
    /\ (cmd.flag /\ pc = "exit") =>
         \A i \in 1..Len(cmd.file) :
           LET p == cmd.file[i].id
           IN  HadRun(p) =>
                 /\ Len(RunsOf(disk[cmd.model], p))
                      = Len(RunsOf(disk0[cmd.model], p)) + 1
                 /\ IsPrefix(RunsOf(disk0[cmd.model], p), RunsOf(disk[cmd.model], p))

\* eval --rerun returned after adding a run to a prompt that had one, next
\* to a prompt that had none.
C11_Witness ==
  /\ EvalLoaded
  /\ cmd.flag
  /\ pc = "exit"
  /\ \E i, j \in 1..Len(cmd.file) :
       /\ HadRun(cmd.file[i].id)
       /\ ~HadRun(cmd.file[j].id)
       /\ Len(RunsOf(disk[cmd.model], cmd.file[i].id)) = 2

\* eval without --rerun returned at once: every selected prompt had a run.
C11_WitnessNoop ==
  /\ EvalLoaded
  /\ ~cmd.flag
  /\ pc = "exit"
  /\ Len(cmd.file) = 2
  /\ \A i \in 1..Len(cmd.file) : HadRun(cmd.file[i].id)

\* C12: self-judging is disallowed.  An eval of the configured judge model
\* never calls the judge and every entry it appends has no judge score; a
\* rejudge never processes the judge model's own result set: it is not the
\* model whose candidates are judged, and its file is not written.
C12_NoSelfJudging ==
  /\ (cmd.name = "eval" /\ pc # "idle" /\ cmd.cfg.judge = cmd.model) =>
       /\ calls.judge = <<>>
       /\ \A i \in 1..Len(calls.provider) :
            Get(Last(model_data.runs[calls.provider[i].pid]), "judge_score") = None
  /\ (cmd.name = "rejudge" /\ pc # "idle") =>
       /\ cmd.model # cmd.cfg.judge
       /\ model_data.kind = "doc" => model_data.model_name # cmd.cfg.judge
       /\ cmd.cfg.judge \notin Range(writes)
       /\ cmd.cfg.judge \in ModelNames =>
            disk[cmd.cfg.judge] = disk0[cmd.cfg.judge]

\* An eval of the judge model returned after two completed responses.
C12_Witness ==
  /\ cmd.name = "eval"
  /\ pc = "exit"
  /\ cmd.cfg.judge = cmd.model
  /\ Len(calls.provider) = 2
  /\ \A i \in 1..2 : calls.provider[i].out.ok

\* A rejudge returned after judging another model while the judge model
\* had a result set with a run of its own.
C12_WitnessRejudge ==
  /\ cmd.name = "rejudge"
  /\ pc = "exit"
  /\ cmd.cfg.judge \in ModelNames
  /\ disk0[cmd.cfg.judge].kind = "doc"
  /\ calls.judge # <<>>

\* The inline secondary-metric call failed: the scorer raised, or it
\* returned without a score from any metric.
DeepevalFailed(de) == de.raised \/ de.deepeval_avg = None
\* The judge outcome of the call made for pid, or the default of a pass
\* without judge call.
JudgeOutcomeOf(pid) ==
  IF \E c \in Range(calls.judge) : c.pid = pid
  THEN (CHOOSE c \in Range(calls.judge) : c.pid = pid).out
  ELSE NoJudge

\* C13: secondary-metric failure during eval.  When the inline scorer
\* fails on a prompt, the entry of the prompt is appended with the
\* response, the auto-check result and the judge fields as they would be
\* without scorer, has no deepeval_scores, and is persisted by the save
\* that follows.
C13_DeepevalFailure ==
  EvalRunning =>
    \A i \in 1..Len(calls.deepeval) :
      DeepevalFailed(calls.deepeval[i].out) =>
        LET pid == calls.deepeval[i].pid
            e == Last(model_data.runs[pid])
            out == ProviderOutcomeOf(pid)
            jr == JudgeOutcomeOf(pid)
        IN  /\ e.content = out.content
            /\ e.auto_checks = Some(check_response(PromptOf(pid), out.content))
            /\ e.judge_score = jr.judge_score
            /\ e.judge_rationale = jr.judge_rationale
            /\ "error" \notin e.keys
            /\ "deepeval_scores" \notin e.keys
            /\ (pid \in Range(PromptIds(SubSeq(cmd.prompts, 1, Len(writes))))
                /\ pc # "save_dump") =>
                 Last(RunsOf(disk[cmd.model], pid)) = e

\* A rejudge or deepeval command returned normally.
RescoreDone == Rescoring /\ pc = "exit" /\ result = "done"
\* The command went through the stored runs of m.
WentThrough(m) ==
  /\ m \in Range(cmd.models)
  /\ m # cmd.cfg.judge
  /\ disk0[m].kind = "doc"
\* The candidates of m: the stored prompt ids, for deepeval after --ids.
Candidates(m) ==
  IF cmd.name = "deepeval"
  THEN Range(DeepevalPids(disk0[m], cmd.filter_pids))
  ELSE Range(disk0[m].order)
\* The candidates whose latest run recorded a completion error.
ErroredCandidates ==
  { mp \in ModelNames \X Pids :
      /\ WentThrough(mp[1])
      /\ mp[2] \in Candidates(mp[1])
      /\ "error" \in latest_run(disk0[mp[1]], mp[2]).keys }

\* C14: errored latest runs are skipped in re-scoring.  When rejudge or
\* deepeval returns, with or without --force, no candidate whose latest run
\* recorded a completion error has got an entry, and every one of them is
\* counted as skipped.
C14_ErroredSkipped ==
  RescoreDone =>
    /\ \A mp \in ErroredCandidates :
         RunsOf(disk[mp[1]], mp[2]) = RunsOf(disk0[mp[1]], mp[2])
    /\ totals.skipped >= Cardinality(ErroredCandidates)

\* p is the id of a prompt of the eval set the command loaded.
InEvalSet(p) == p \in Range(PromptIds(cmd.file))
\* The candidates of m the command selects for re-scoring.
Selected(m) ==
  IF cmd.name = "deepeval"
  THEN Range(ToScore(disk0[m], cmd.flag, cmd.filter_pids))
  ELSE Range(ToJudge(disk0[m], cmd.flag, cmd.cfg.judge))
\* The selected candidates whose prompt is in the eval set the command
\* loaded.
Scorable ==
  { mp \in ModelNames \X Pids :
      /\ WentThrough(mp[1])
      /\ mp[2] \in Selected(mp[1])
      /\ InEvalSet(mp[2]) }
\* The scorer raised on the call made for p.
ScorerRaised(p) ==
  \E i \in 1..Len(calls.deepeval) :
    calls.deepeval[i].pid = p /\ calls.deepeval[i].out.raised

\* C15: prompt-not-found during re-scoring is not fatal.  A stored prompt
\* id that is not in the eval set gets no adapter call and no entry; the
\* command still returns after one adapter call for every other selected
\* candidate of every model, each of which gets its entry (but for a
\* scorer that raised), and after writing every model with a selected
\* candidate.
C15_PromptNotFound ==
  Rescoring =>
    /\ \A p \in Pids :
         ~InEvalSet(p) =>
           /\ \A i \in 1..Len(calls.judge) : calls.judge[i].pid # p
           /\ \A i \in 1..Len(calls.deepeval) : calls.deepeval[i].pid # p
           /\ model_data.kind = "doc" =>
                model_data.runs[p] = RunsOf(disk0[model_data.model_name], p)
           /\ pc = "exit" =>
                \A m \in ModelNames : RunsOf(disk[m], p) = RunsOf(disk0[m], p)
    /\ RescoreDone =>
         /\ Len(calls.judge) + Len(calls.deepeval) = Cardinality(Scorable)
         /\ \A mp \in Scorable :
              \/ Len(RunsOf(disk[mp[1]], mp[2])) = Len(RunsOf(disk0[mp[1]], mp[2])) + 1
              \/ ScorerRaised(mp[2])
         /\ \A m \in ModelNames :
              (WentThrough(m) /\ Selected(m) # {}) => m \in Range(writes)

\* The command returned after passing over a candidate that is not in the
\* eval set and scoring a candidate of a later model.
C15_Witness ==
  /\ RescoreDone
  /\ \E p \in Pids :
       /\ ~InEvalSet(p)
       /\ WentThrough("a")
       /\ p \in Selected("a")
  /\ \E q \in Pids :
       /\ <<"b", q>> \in Scorable
       /\ Len(RunsOf(disk["b"], q)) = Len(RunsOf(disk0["b"], q)) + 1

\* The running command has ended without calling a provider or an adapter
\* and without touching a file.
EndedWithoutWork ==
  /\ pc = "exit"
  /\ calls = NoCalls
  /\ writes = <<>>
  /\ disk = disk0
\* The evaluated model is not in config["models"], or its provider cannot
\* be initialised.
EvalModelError ==
  /\ cmd.name = "eval"
  /\ cmd.model \notin ModelsCfg \/ cmd.model \in cmd.cfg.keyless
\* The judge model is not in config["models"].
JudgeMissing == cmd.cfg.judge \notin ModelsCfg

\* C16 as stated: a command, eval or rejudge, whose evaluated model is
\* missing or cannot be initialised, or whose judge model is missing, ends
\* without calling a provider or adapter and without writing a result set.
C16_AsStated ==
  (/\ pc # "idle"
   /\ cmd.name \in {"eval", "rejudge"}
   /\ EvalModelError \/ JudgeMissing)
    => EndedWithoutWork

\* C16, amended: eval ends without work when the evaluated model is missing
\* or its provider cannot be initialised; rejudge ends without work when
\* the judge model is missing or its provider cannot be initialised.  A
\* missing judge model does not end eval: it runs without calling the
\* judge.
C16_ConfigErrors ==
  /\ (pc # "idle" /\ EvalModelError) => EndedWithoutWork
  /\ (/\ pc # "idle"
      /\ cmd.name = "rejudge"
      /\ JudgeMissing \/ cmd.cfg.judge \in cmd.cfg.keyless)
       => (EndedWithoutWork /\ result = "exit1")
  /\ (pc # "idle" /\ cmd.name = "eval" /\ JudgeMissing) => calls.judge = <<>>

\* An eval that had prompts to process ended at get_provider.
C16_Witness ==
  /\ EvalModelError
  /\ cmd.model \in cmd.cfg.keyless
  /\ cmd.prompts # <<>>
  /\ pc = "exit"
  /\ result = "exit1"

\* A rejudge over a store with results ended at its judge check.
C16_WitnessRejudge ==
  /\ cmd.name = "rejudge"
  /\ JudgeMissing
  /\ cmd.models # <<>>
  /\ pc = "exit"

\* The latest run of p in the result set of m is not an error entry and
\* holds a score given by a judge other than the current one.
ScoredByOther(m, p) ==
  LET run == latest_run(disk0[m], p)
  IN  /\ RunsOf(disk0[m], p) # <<>>
      /\ "error" \notin run.keys
      /\ Get(run, "judge_score") # None
      /\ Get(run, "judge_model") # Some(cmd.cfg.judge)
\* rejudge has judged p and the latest persisted entry of p in m names the
\* current judge.
RejudgedByCurrent(m, p) ==
  /\ \E i \in 1..Len(calls.judge) : calls.judge[i].pid = p
  /\ Len(RunsOf(disk[m], p)) = Len(RunsOf(disk0[m], p)) + 1
  /\ Get(Last(RunsOf(disk[m], p)), "judge_model") = Some(cmd.cfg.judge)

\* C17 as stated: rejudge without --force re-judges every prompt of a
\* target model whose latest non-errored entry has a score of another judge.
C17_AsStated ==
  (RejudgeDone /\ ~cmd.flag) =>
    \A m \in ModelNames, p \in Pids :
      (m \in Range(cmd.models) /\ disk0[m].kind = "doc" /\ ScoredByOther(m, p))
        => RejudgedByCurrent(m, p)

\* C17, amended: judge change makes old scores eligible.  rejudge without
\* --force calls the current judge for, and appends an entry naming the
\* current judge to, every prompt whose latest non-errored entry has a
\* score of another judge, when the prompt id is in the eval set and the
\* model is not the current judge itself.
C17_JudgeChange ==
  (RejudgeDone /\ ~cmd.flag) =>
    \A m \in ModelNames, p \in Pids :
      (WentThrough(m) /\ ScoredByOther(m, p) /\ InEvalSet(p))
        => RejudgedByCurrent(m, p)

\* rejudge without --force returned after re-judging a prompt that held a
\* score of another judge.
C17_Witness ==
  /\ RejudgeDone
  /\ ~cmd.flag
  /\ \E m \in ModelNames, p \in Pids :
       /\ WentThrough(m)
       /\ ScoredByOther(m, p)
       /\ RejudgedByCurrent(m, p)

\* C18: latest_run returns the most recently appended entry.  Whenever a
\* step of eval, rejudge or deepeval lengthens a history, the new history
\* is the old one followed by what latest_run now returns, whatever the
\* number of entries before it; and whenever a step rewrites the file of a
\* model, latest_run on the file returns what it returns in memory.
LatestStep ==
  /\ (/\ model_data.kind = "doc"
      /\ model_data'.kind = "doc"
      /\ model_data'.model_name = model_data.model_name)
       => \A p \in Pids :
            model_data'.runs[p] # model_data.runs[p] =>
              /\ model_data'.runs[p]
                   = Append(model_data.runs[p], latest_run(model_data', p))
              /\ latest_run(model_data', p).timestamp = now
  /\ \A m \in ModelNames :
       (disk'[m] # disk[m] /\ disk'[m].kind = "doc") =>
         \A p \in Pids : latest_run(disk'[m], p) = latest_run(model_data, p)
C18_Latest == [][LatestStep]_vars

\* deepeval has appended the third entry of a history.
C18_Witness ==
  /\ cmd.name = "deepeval"
  /\ \E p \in Pids :
       /\ AppendedTo(p)
       /\ Len(model_data.runs[p]) = 3
       /\ latest_run(model_data, p) = model_data.runs[p][3]

\* C19: load of a model without result file.  For every model that has no
\* file, load_model_results does not fail and returns a result set without
\* runs, on which latest_run returns the empty value for every prompt id;
\* and an eval that has just loaded such a model holds that result set
\* while the files are as they were: the load has created none.
C19_LoadMissing ==
  /\ \A m \in ModelNames :
       disk[m].kind = "none" =>
         /\ ~LoadFails(m)
         /\ load_model_results(m).kind = "doc"
         /\ load_model_results(m).model_name = m
         /\ load_model_results(m).order = <<>>
         /\ \A p \in Pids :
              /\ load_model_results(m).runs[p] = <<>>
              /\ latest_run(load_model_results(m), p) = EmptyRun
  /\ (/\ cmd.name = "eval"
      /\ pc = "eval_loop"
      /\ calls.provider = <<>>
      /\ disk0[cmd.model].kind = "none")
       => /\ disk = disk0
          /\ model_data.kind = "doc"
          /\ model_data.order = <<>>
          /\ \A p \in Pids : latest_run(model_data, p) = EmptyRun

\* An eval has loaded a model that has no file, next to a model that has
\* one.
C19_Witness ==
  /\ cmd.name = "eval"
  /\ pc = "eval_loop"
  /\ calls.provider = <<>>
  /\ disk0[cmd.model].kind = "none"
  /\ \E m \in ModelNames : disk0[m].kind = "doc"
  /\ model_data.order = <<>>

\* A history of an invocation in memory and the history it loaded: the
\* loaded one, or the loaded one and one entry more.
OwnHistory(held, loaded) ==
  /\ IsPrefix(loaded, held)
  /\ Len(held) <= Len(loaded) + 1

\* C20: concurrent invocations are unsafe.  Each invocation holds what it
\* loaded when it started and its own entries, whatever the other one has
\* written since, and every write replaces the file by what the writer
\* holds; so an entry one invocation persisted can be missing from the
\* file in the end (C20_Witness).
WriteBackStep ==
  /\ (cmd.name = "eval" /\ model_data.kind = "doc") =>
       \A p \in Pids :
         OwnHistory(model_data.runs[p], RunsOf(disk0[cmd.model], p))
  /\ peer.model_data.kind = "doc" =>
       \A p \in Pids :
         OwnHistory(peer.model_data.runs[p], RunsOf(peer.loaded, p))
  /\ \A m \in ModelNames :
       (disk'[m] # disk[m] /\ disk'[m].kind = "doc") =>
         \/ pc = "save_dump" /\ cmd.model = m /\ disk'[m] = model_data
         \/ peer.pc = "save" /\ peer.model = m /\ disk'[m] = peer'.model_data
C20_WriteBack == [][WriteBackStep]_vars

\* Both invocations have returned, the command after saving an entry for
\* every prompt it was given, and the file holds no entry of the command
\* for one of them: the second invocation, which was given other prompts,
\* wrote last.
C20_Witness ==
  /\ cmd.name = "eval"
  /\ pc = "exit"
  /\ result = "done"
  /\ Len(writes) = Len(cmd.prompts)
  /\ peer.pc = "done"
  /\ \E i \in 1..Len(cmd.prompts) :
       LET p == cmd.prompts[i].id
       IN  /\ Len(model_data.runs[p]) = Len(RunsOf(disk0[cmd.model], p)) + 1
           /\ peer.model_data.runs[p] = RunsOf(peer.loaded, p)
           /\ RunsOf(disk[cmd.model], p) = RunsOf(disk0[cmd.model], p)

\* The rows of the leaderboard the command computed.
Rows == IF report = None THEN {} ELSE Range(report[1])
Aggregating == cmd.name \in {"compare", "dashboard"}
Abs(x) == IF x < 0 THEN -x ELSE x

\* x is the fraction num / den rounded to a whole number of units.
IsRounded(x, num, den) == 2 * Abs(x * den - num) <= den

\* C21: for a model with judge scores and secondary averages the composite
\* is judge_weight * (avg_judge - 1) / 4 + deepeval_weight * avg_secondary
\* (to four decimals); with weights 0.5 / 0.5, judge 5 and secondary 1.0
\* give 1.0, and judge 1 and secondary 0.0 give 0.0.
C21_Composite ==
  \A row \in Rows :
    (row.scored > 0 /\ row.deepeval_avg # None) =>
      LET S == row.avg_s[1]
          n == row.avg_s[2]
          D == row.deepeval_avg[1][1]
          k == row.deepeval_avg[1][2]
          w == cmd.weights
      IN  /\ row.composite # None
          /\ IsRounded(row.composite[1],
                       w.judge_weight * (S - n) * 10000 * k
                         + w.deepeval_weight * D * 4 * n,
                       1000 * 4 * n * k)
          /\ (w = DefaultWeights /\ S = 5 * n /\ D = 10000 * k) =>
               row.composite = Some(10000)
          /\ (w = DefaultWeights /\ S = n /\ D = 0) =>
               row.composite = Some(0)

\* A leaderboard under the default weights with a model at judge 5 and
\* secondary 1.0 and a model at judge 1 and secondary 0.0.
C21_Witness ==
  /\ Aggregating
  /\ cmd.weights = DefaultWeights
  /\ \E row \in Rows :
       /\ row.scored > 0 /\ row.avg_s[1] = 5 * row.avg_s[2]
       /\ row.deepeval_avg # None
       /\ row.deepeval_avg[1][1] = 10000 * row.deepeval_avg[1][2]
  /\ \E row \in Rows :
       /\ row.scored > 0 /\ row.avg_s[1] = row.avg_s[2]
       /\ row.deepeval_avg # None /\ row.deepeval_avg[1][1] = 0

\* A model at judge 3 and secondary 0.5 under the weights 0.8 / 0.2.
C21_WitnessWeighted ==
  /\ cmd.weights # DefaultWeights
  /\ \E row \in Rows :
       /\ row.avg_s = <<6, 2>>
       /\ row.deepeval_avg # None
       /\ row.composite = Some(5000)

\* C22: with judge scores and no secondary average the composite is the
\* normalized judge mean alone, with no weight applied; with secondary
\* averages only it is the secondary mean alone; with neither it is null,
\* never zero.
C22_Degrades ==
  \A row \in Rows :
    LET S == row.avg_s[1]
        n == row.avg_s[2]
    IN  /\ (row.scored > 0 /\ row.deepeval_avg = None) =>
             /\ row.composite # None
             /\ IsRounded(row.composite[1], (S - n) * 10000, 4 * n)
        /\ (row.scored = 0 /\ row.deepeval_avg # None) =>
             /\ row.composite # None
             /\ IsRounded(row.composite[1], row.deepeval_avg[1][1],
                          row.deepeval_avg[1][2])
        /\ (row.scored = 0 /\ row.deepeval_avg = None) =>
             row.composite = None

\* Under the weights 0.8 / 0.2: one model with judge scores only and a
\* composite of 0.75, the other with neither dimension.
C22_Witness ==
  /\ Aggregating
  /\ cmd.weights # DefaultWeights
  /\ \E row \in Rows :
       row.scored > 0 /\ row.deepeval_avg = None /\ row.composite = Some(7500)
  /\ \E row \in Rows :
       row.scored = 0 /\ row.deepeval_avg = None /\ row.total > 0

\* A model with secondary averages only.
C22_WitnessSecondary ==
  \E row \in Rows :
    row.scored = 0 /\ row.deepeval_avg # None /\ row.composite = Some(8000)

\* The composite as the ordering takes it: null counts as 0.
OrderingComposite(row) == IF row.composite # None THEN row.composite[1] ELSE 0

\* C23: on the leaderboard every model with at least one judge-scored
\* prompt stands above every model with none, whatever the composites;
\* within each of the two groups the composites descend, a null composite
\* taken as 0.
C23_Ranking ==
  report # None =>
    \A i, j \in 1..Len(report[1]) :
      i < j =>
        LET x == report[1][i]
            y == report[1][j]
        IN  /\ ~(x.scored = 0 /\ y.scored > 0)
            /\ ((x.scored > 0) = (y.scored > 0)) =>
                 OrderingComposite(x) >= OrderingComposite(y)

\* compare b a: a, judged with composite 0.0, stands above b, which has no
\* judge score and a secondary-only composite of 0.8.
C23_Witness ==
  /\ cmd.name = "compare"
  /\ cmd.models = <<"b", "a">>
  /\ report # None
  /\ Len(report[1]) = 2
  /\ report[1][1].name = "a"
  /\ report[1][1].scored > 0
  /\ report[1][1].composite = Some(0)
  /\ report[1][2].scored = 0
  /\ report[1][2].composite = Some(8000)

\* Two judged models in descending composite order, the second one moved
\* up from the last place of the caller's order.
C23_WitnessDescending ==
  /\ cmd.name = "compare"
  /\ cmd.models = <<"b", "a">>
  /\ report # None
  /\ Len(report[1]) = 2
  /\ report[1][1].name = "a"
  /\ report[1][2].scored > 0
  /\ OrderingComposite(report[1][1]) > OrderingComposite(report[1][2])

\* The store with every history cut down to its last entry.
LatestOnly(files) ==
  [m \in ModelNames |->
     IF files[m].kind # "doc" THEN files[m]
     ELSE [files[m] EXCEPT
             !.runs = [pid \in Pids |->
                         IF @[pid] = <<>> THEN <<>>
                         ELSE << @[pid][Len(@[pid])] >>]]]

\* The models a finished aggregation reported on.
Reported ==
  IF cmd.name = "compare"
  THEN SelectSeq(cmd.models, LAMBDA m : disk[m].kind = "doc")
  ELSE SelectSeq(list_evaluated_models, LAMBDA m : m # cmd.cfg.judge)

\* C24: aggregation uses the latest run only: the leaderboard (scored and
\* flagged counts, avg_judge, avg_secondary, composite and the rest of each
\* row) is the one computed from the store in which every history holds
\* its last entry alone.
C24_LatestOnly ==
  (Aggregating /\ report # None) =>
    report[1] =
      IF cmd.name = "compare"
      THEN CompareBoard(LatestOnly(disk), Reported, PromptIds(cmd.file),
                        cmd.weights)
      ELSE StatsBoard(LatestOnly(disk), Reported, cmd.file,
                      cmd.weights)

\* A leaderboard over a history of two entries whose judge scores differ,
\* for compare and for the dashboard.
TwoScores(m) ==
  /\ disk[m].kind = "doc"
  /\ \E i \in 1..Len(cmd.file) :
       LET runs == disk[m].runs[cmd.file[i].id]
       IN  /\ Len(runs) = 2
           /\ runs[1].judge_score # runs[2].judge_score
C24_Witness ==
  /\ cmd.name = "compare"
  /\ report # None
  /\ \E row \in Rows : TwoScores(row.name)
C24_WitnessDashboard ==
  /\ cmd.name = "dashboard"
  /\ report # None
  /\ \E row \in Rows : TwoScores(row.name)

\* The prompts of the target set whose latest stored run of m carries a
\* flag.
FlaggedPrompts(m) ==
  { pid \in Range(PromptIds(cmd.file)) :
      LET runs == RunsOf(disk[m], pid)
      IN  /\ runs # <<>>
          /\ runs[Len(runs)].auto_checks # None
          /\ runs[Len(runs)].auto_checks[1].flags # <<>> }

\* C25: for every model the reported flagged count is the number of
\* prompts of the target set whose latest run has a non-empty flags list,
\* runs flagged API_ERROR included.
C25_FlaggedCount ==
  Aggregating =>
    \A row \in Rows : row.flagged = Cardinality(FlaggedPrompts(row.name))

\* The same for the leaderboard of compare alone.
C25_CompareFlagged ==
  cmd.name = "compare" =>
    \A row \in Rows : row.flagged = Cardinality(FlaggedPrompts(row.name))

\* The dashboard counts the flagged latest runs that carry no error
\* message.
C25_DashboardFlagged ==
  cmd.name = "dashboard" =>
    \A row \in Rows :
      row.flagged =
        Cardinality({ pid \in FlaggedPrompts(row.name) :
          LET runs == RunsOf(disk[row.name], pid)
          IN  ~TruthyStr(Get(runs[Len(runs)], "error")) })

\* C26: the aggregator never mutates the store.  A step of compare, with
\* or without --save, or of dashboard generation (the command, and the
\* regeneration that ends eval, rejudge and deepeval) leaves every result
\* set as it is, its updated field included.
AggregatorStep ==
  \/ cmd'.name \in {"compare", "dashboard"} /\ pc = "idle"
  \/ pc \in {"eval_done", "rejudge_model", "deepeval_model"} /\ pc' = "exit"
C26_NoMutation == [][AggregatorStep => disk' = disk]_vars

\* compare --save has printed and saved its leaderboard over a store with
\* result sets.
C26_Witness ==
  /\ cmd.name = "compare"
  /\ cmd.flag
  /\ result = "done"
  /\ report # None
  /\ disk = disk0
  /\ \E m \in ModelNames : disk[m].kind = "doc" /\ disk[m].updated = Some(0)

\* The dashboard has been generated by the command.
C26_WitnessDashboard ==
  /\ cmd.name = "dashboard"
  /\ result = "done"
  /\ report # None
  /\ disk = disk0

\* The position of x in the sequence q, 0 when it is not there.
IndexOf(q, x) ==
  IF \E i \in 1..Len(q) : q[i] = x
  THEN CHOOSE i \in 1..Len(q) : q[i] = x /\ \A j \in 1..(i - 1) : q[j] # x
  ELSE 0

\* The adapter calls of the running re-scoring command, in the order made.
AdapterCalls == IF cmd.name = "rejudge" THEN calls.judge ELSE calls.deepeval

\* The order of the models: the caller's, or the alphabetical one of the
\* names that had a file when the command started.
ModelsInOrder ==
  IF cmd.args_models # <<>> THEN cmd.args_models
  ELSE SelectSeq(<<"a", "b">>, LAMBDA m : disk0[m].kind # "none")

\* C27: within a model, rejudge and deepeval call the adapter on the
\* candidates in the stored insertion order of the prompt ids; the models
\* are taken in the order the caller gave, or alphabetically when the
\* command defaulted to all known models.
C27_RescoreOrder ==
  cmd.name \in {"rejudge", "deepeval"} =>
    \A i, j \in 1..Len(AdapterCalls) :
      i < j =>
        LET x == AdapterCalls[i]
            y == AdapterCalls[j]
        IN  /\ IndexOf(ModelsInOrder, x.model) > 0
            /\ IndexOf(ModelsInOrder, x.model) <= IndexOf(ModelsInOrder, y.model)
            /\ x.model = y.model =>
                 /\ IndexOf(disk0[x.model].order, x.pid) > 0
                 /\ IndexOf(disk0[x.model].order, x.pid)
                      < IndexOf(disk0[y.model].order, y.pid)

\* rejudge b a: b was judged before a, and within a P2, inserted first, was
\* judged before P1.
C27_Witness ==
  /\ cmd.name = "rejudge"
  /\ cmd.args_models = <<"b", "a">>
  /\ result = "done"
  /\ disk0["a"].order = <<"P2", "P1">>
  /\ Len(calls.judge) >= 3
  /\ calls.judge[1].model = "b"
  /\ \E i \in 2..(Len(calls.judge) - 1) :
       /\ calls.judge[i].model = "a" /\ calls.judge[i].pid = "P2"
       /\ calls.judge[i + 1].model = "a" /\ calls.judge[i + 1].pid = "P1"

\* deepeval over all known models: a was scored before b, P2 before P1.
C27_WitnessDeepeval ==
  /\ cmd.name = "deepeval"
  /\ cmd.args_models = <<>>
  /\ result = "done"
  /\ disk0["a"].order = <<"P2", "P1">>
  /\ Len(calls.deepeval) >= 3
  /\ calls.deepeval[1].model = "a" /\ calls.deepeval[1].pid = "P2"
  /\ calls.deepeval[2].model = "a" /\ calls.deepeval[2].pid = "P1"
  /\ calls.deepeval[3].model = "b"

\* The stored runs of the models deepeval covers whose prompt id is among
\* the ids given with --ids.
InIdFilter ==
  { mp \in ModelNames \X Pids :
      /\ mp[1] \in Range(cmd.models)
      /\ mp[2] \in Range(cmd.args_ids)
      /\ RunsOf(disk0[mp[1]], mp[2]) # <<>> }

\* C28: deepeval with an explicit id filter appends entries only for
\* prompt ids of the filter and counts only such ids as scored, skipped or
\* errored, also when no id of the filter matches a canonical prompt.
C28_IdFilter ==
  (cmd.name = "deepeval" /\ cmd.args_ids # None) =>
    /\ \A m \in ModelNames, pid \in Pids :
         pid \notin Range(cmd.args_ids) =>
           /\ disk[m].kind = "doc" => RunsOf(disk[m], pid) = RunsOf(disk0[m], pid)
           /\ \A i \in 1..Len(calls.deepeval) : calls.deepeval[i].pid # pid
    /\ totals.done + totals.errors <= Cardinality(InIdFilter)
    /\ totals.skipped
         <= Cardinality({ mp \in InIdFilter :
              TruthyMap(Get(latest_run(disk0[mp[1]], mp[2]), "deepeval_scores")) })

\* The part about the entries alone: nothing is appended, and the adapter
\* is not called, for an id outside the filter (a file is cut short while
\* it is being rewritten).
C28_AppendsInFilter ==
  (cmd.name = "deepeval" /\ cmd.args_ids # None) =>
    \A m \in ModelNames, pid \in Pids :
      pid \notin Range(cmd.args_ids) =>
        /\ disk[m].kind = "doc" => RunsOf(disk[m], pid) = RunsOf(disk0[m], pid)
        /\ \A i \in 1..Len(calls.deepeval) : calls.deepeval[i].pid # pid

\* The filter matched a canonical prompt: the whole statement.
C28_MatchingFilter ==
  (cmd.filter_pids # None /\ cmd.filter_pids # Some({})) => C28_IdFilter

\* A fraction <<numerator, denominator>> is greater than the whole number k.
Greater(frac, k) == frac[1] > k * frac[2]

\* C29: the efficiency of a dashboard row is avg_judge / log2(avg_tokens)
\* only when avg_judge > 0 and avg_output_tokens > 1, and 0 in every other
\* case, in particular whenever avg_output_tokens is at most 1, whatever
\* the judge score.
C29_Efficiency ==
  cmd.name = "dashboard" =>
    \A row \in Rows :
      /\ row.efficiency # None
      /\ LET e == row.efficiency[1]
         IN  /\ e.zero = ~(Greater(row.avg_s, 0) /\ Greater(row.avg_t, 1))
             /\ ~e.zero => (e.avg_s = row.avg_s /\ e.avg_t = row.avg_t)
             /\ ~Greater(row.avg_t, 1) => e.zero

\* A dashboard row of a judged model whose mean output tokens are 1: its
\* efficiency is 0.
C29_Witness ==
  /\ cmd.name = "dashboard"
  /\ \E row \in Rows :
       /\ row.scored > 0
       /\ row.avg_t = <<1, 1>>
       /\ row.efficiency[1].zero

\* A dashboard row with a quotient as efficiency.
C29_WitnessDefined ==
  /\ cmd.name = "dashboard"
  /\ \E row \in Rows : row.scored > 0 /\ ~row.efficiency[1].zero

\* x comes before y in alphabetical order.
NameBefore(x, y) ==
  \/ x = "a" /\ y \in {"b", "comparison", "j"}
  \/ x = "b" /\ y \in {"comparison", "j"}
  \/ x = "comparison" /\ y = "j"

\* C30: list_models returns the names of all persisted result sets in
\* alphabetical order, never the reserved name comparison, and an empty
\* sequence when nothing is persisted.
C30_ListModels ==
  cmd.name = "models" =>
    /\ Range(cmd.models) = { m \in ModelNames : disk[m].kind # "none" }
    /\ \A i, j \in 1..Len(cmd.models) :
         i < j => NameBefore(cmd.models[i], cmd.models[j])
    /\ "comparison" \notin Range(cmd.models)
    /\ (\A m \in ModelNames : disk[m].kind = "none") => cmd.models = <<>>

\* Both result sets are listed, a before b, next to a comparison.json.
C30_Witness ==
  /\ cmd.name = "models"
  /\ cmd.others = {"comparison"}
  /\ cmd.models = <<"a", "b">>
  /\ result = "done"
  /\ report # None /\ Len(report[1]) = 2

\* Nothing is persisted: the listing is empty.
C30_WitnessEmpty ==
  /\ cmd.name = "models"
  /\ cmd.models = <<>>
  /\ result = "noop"

\* The outcomes of the adapter calls that returned a result.
ScorerResults ==
  { c.out : c \in { d \in Range(calls.deepeval) : ~d.out.raised } }
\* The non-null scores of a mapping.
NonNull(scores) == SelectSeq(scores, LAMBDA kv : kv[2] # None)
\* The enabled metrics the adapter knows, in the order of the configuration.
Recognised ==
  SelectSeq(cmd.cfg.metrics,
            LAMBDA n : n \in {"correctness", "coherence", "instruction_following"})

\* C31: partial secondary-metric failure.  The adapter returns a mapping
\* with one key per enabled recognised metric, null for each metric that
\* failed, and an average that is the mean of the non-null scores, null
\* exactly when every metric is null.
C31_PartialFailure ==
  \A de \in ScorerResults :
    LET scores == de.deepeval_scores
        valid == NonNull(scores)
    IN  /\ [i \in 1..Len(scores) |-> scores[i][1]] = Recognised
        /\ (de.deepeval_avg = None) = (valid = <<>>)
        /\ valid # <<>> =>
             IsRounded(de.deepeval_avg[1],
                       SumSeq([i \in 1..Len(valid) |-> valid[i][2][1]]),
                       Len(valid))

\* The adapter returned correctness 0.8 and a failed coherence: the average
\* is 0.8.
C31_Witness ==
  \E de \in ScorerResults :
    /\ de.deepeval_scores = << <<"correctness", Some(8000)>>, <<"coherence", None>> >>
    /\ de.deepeval_avg = Some(8000)

\* Both metrics scored (0.8 and 0.5124, average 0.6562), and both failed.
C31_WitnessBoth ==
  \E de \in ScorerResults :
    /\ de.deepeval_scores = << <<"correctness", Some(8000)>>, <<"coherence", Some(5124)>> >>
    /\ de.deepeval_avg = Some(6562)
C31_WitnessNone ==
  \E de \in ScorerResults :
    /\ de.deepeval_scores = << <<"correctness", None>>, <<"coherence", None>> >>
    /\ de.deepeval_avg = None

\* The entries the running eval appended, one per provider call.
EvalAppended ==
  { [pid |-> c.pid, entry |-> Last(model_data.runs[c.pid])] :
      c \in Range(calls.provider) }

\* C32: judge_model provenance.  An entry names a judge only if that judge
\* was invoked for the entry: an entry written by eval while the judge was
\* skipped (self-judging, judge missing from the configuration, judge
\* provider not initialisable) has no judge_model.
C32_Provenance ==
  (cmd.name = "eval" /\ pc \in {"save_open", "save_dump", "eval_loop", "eval_done", "exit"}
     /\ model_data.kind = "doc") =>
    \A a \in EvalAppended :
      Get(a.entry, "judge_model") # None =>
        /\ cmd.has_judge
        /\ \E c \in Range(calls.judge) : c.pid = a.pid

\* The part of C32 that holds: an entry written by eval whose judge was
\* invoked names the configured judge.
C32_NamesJudge ==
  (cmd.name = "eval" /\ pc \in {"save_open", "save_dump", "eval_loop", "eval_done", "exit"}
     /\ model_data.kind = "doc") =>
    \A a \in EvalAppended :
      (\E c \in Range(calls.judge) : c.pid = a.pid) =>
        Get(a.entry, "judge_model") = Some(cmd.cfg.judge)

\* An eval of the judge model itself appended an entry.
C32_WitnessSelf ==
  /\ cmd.name = "eval"
  /\ pc = "exit"
  /\ cmd.cfg.judge = cmd.model
  /\ \E a \in EvalAppended : Get(a.entry, "judge_model") = Some(cmd.model)

\* The second sentence of C32 alone: an eval whose judge was skipped writes
\* entries without judge_model.
C32_SkippedAbsent ==
  (cmd.name = "eval" /\ ~cmd.has_judge /\ model_data.kind = "doc") =>
    \A a \in EvalAppended : Get(a.entry, "judge_model") = None

\* C33: the category breakdown is the same reduction restricted to a
\* category.  For every model and category, the per-category composite of
\* the dashboard is the overall composite the aggregator computes when the
\* target prompts are those of the category.
C33_CategoryBreakdown ==
  (cmd.name = "dashboard" /\ pc = "exit" /\ report # None) =>
    \A i \in 1..Len(report[1]) :
      LET row == report[1][i]
      IN  \A cat \in DOMAIN row.cat_composite :
            row.cat_composite[cat]
              = StatsRow(row.name, disk[row.name],
                         CatPids(cmd.file, cat), cmd.weights).composite

\* What holds of the breakdown: the per-category composite is missing
\* exactly when the restricted overall composite is, and otherwise lies
\* within 0.005 of it (the means are rounded to two decimals before they
\* are merged).
C33_WithinHundredth ==
  (cmd.name = "dashboard" /\ pc = "exit" /\ report # None) =>
    \A i \in 1..Len(report[1]) :
      LET row == report[1][i]
      IN  \A cat \in DOMAIN row.cat_composite :
            LET overall == StatsRow(row.name, disk[row.name],
                                    CatPids(cmd.file, cat), cmd.weights).composite
                mine == row.cat_composite[cat]
            IN  /\ (mine = None) = (overall = None)
                /\ mine # None => Abs(mine[1] - overall[1]) <= 50

\* A dashboard over two categories whose composites differ.
C33_WitnessSingle ==
  /\ cmd.name = "dashboard"
  /\ pc = "exit"
  /\ report # None
  /\ \E i \in 1..Len(report[1]) :
       LET cc == report[1][i].cat_composite
       IN  /\ DOMAIN cc = {"Coding", "writing"}
           /\ cc["Coding"] # None
           /\ cc["writing"] # None
           /\ cc["Coding"] # cc["writing"]

\* The command is one that C34 says cannot touch an errored prompt: eval
\* without --rerun, rejudge or deepeval.
NoRerunCommand ==
  /\ pc # "idle"
  /\ \/ cmd.name \in {"rejudge", "deepeval"}
     \/ cmd.name = "eval" /\ ~cmd.flag
\* The latest stored run of (m, p) had the error key when the command began.
ErroredAtStart(m, p) ==
  /\ disk0[m].kind = "doc"
  /\ "error" \in latest_run(disk0[m], p).keys

\* C34: an errored prompt is sticky.  Once the latest run of a (model,
\* prompt) has error set, eval without --rerun, rejudge and deepeval, with
\* or without --force, append nothing to that prompt's history.
C34_Sticky ==
  NoRerunCommand =>
    \A m \in ModelNames, p \in Pids :
      (ErroredAtStart(m, p) /\ disk[m].kind = "doc") =>
        RunsOf(disk[m], p) = RunsOf(disk0[m], p)

\* What holds: a prompt whose latest run has a non-empty error message is
\* left alone by these commands.
C34_StickyMessage ==
  NoRerunCommand =>
    \A m \in ModelNames, p \in Pids :
      (ErroredAtStart(m, p) /\ latest_run(disk0[m], p).error # Some("")
         /\ disk[m].kind = "doc") =>
        RunsOf(disk[m], p) = RunsOf(disk0[m], p)

\* A rejudge went through a result set holding an errored latest run with
\* a message, called the judge for another prompt, and returned.
C34_WitnessMessage ==
  /\ cmd.name = "rejudge"
  /\ pc = "exit"
  /\ calls.judge # <<>>
  /\ \E m \in ModelNames, p \in Pids :
       /\ WentThrough(m)
       /\ ErroredAtStart(m, p)
       /\ latest_run(disk0[m], p).error # Some("")

\* eval --rerun replaced an errored latest run.
C34_WitnessRerun ==
  /\ cmd.name = "eval"
  /\ cmd.flag
  /\ pc = "exit"
  /\ \E p \in Pids :
       /\ ErroredAtStart(cmd.model, p)
       /\ disk[cmd.model].kind = "doc"
       /\ Len(RunsOf(disk[cmd.model], p)) = Len(RunsOf(disk0[cmd.model], p)) + 1

\* The judge calls of the running rejudge that returned no score.
FailedJudgeCalls ==
  { i \in 1..Len(calls.judge) : calls.judge[i].out.judge_score = None }
\* The latest stored run of (m, p) is the entry the previous command of
\* the retry scope, a rejudge under the current judge, appended when the
\* judge gave no score.
FailedBefore(m, p) ==
  LET run == latest_run(disk0[m], p)
  IN  /\ disk0[m].kind = "doc"
      /\ run.keys # {}
      /\ run.timestamp = now - 1
      /\ Get(run, "judge_score") = None
      /\ Get(run, "judge_model") = Some(cmd.cfg.judge)
\* The running rejudge called the judge for (m, p) and appended one entry.
JudgedAgain(m, p) ==
  /\ \E c \in Range(calls.judge) : c.model = m /\ c.pid = p
  /\ Len(RunsOf(disk[m], p)) = Len(RunsOf(disk0[m], p)) + 1

\* C35 as stated: every later rejudge without --force re-invokes the judge
\* on a prompt whose last rejudge gave no score.
C35_AsStated ==
  (RejudgeDone /\ ~cmd.flag) =>
    \A m \in ModelNames, p \in Pids :
      (WentThrough(m) /\ FailedBefore(m, p)) => JudgedAgain(m, p)

\* C35, amended: a judge failure during rejudge still grows history.  When
\* the judge returns a null score, rejudge appends an entry with judge_score
\* null and judge_model set to the current judge and counts it as an error;
\* the prompt stays eligible: a later rejudge without --force calls the
\* judge on it again and appends one more entry, as long as the prompt id
\* is in the eval set.
C35_JudgeFailure ==
  RejudgeDone =>
    /\ \A i \in FailedJudgeCalls :
         LET c == calls.judge[i]
             runs == RunsOf(disk[c.model], c.pid)
         IN  /\ Len(runs) = Len(RunsOf(disk0[c.model], c.pid)) + 1
             /\ Get(Last(runs), "judge_score") = None
             /\ Get(Last(runs), "judge_model") = Some(cmd.cfg.judge)
    /\ totals.errors = Cardinality(FailedJudgeCalls)
    /\ ~cmd.flag =>
         \A m \in ModelNames, p \in Pids :
           (WentThrough(m) /\ FailedBefore(m, p) /\ InEvalSet(p))
             => JudgedAgain(m, p)

\* A rejudge without --force obtained a score for a prompt on which the
\* judge had failed in the rejudge before it.
C35_Witness ==
  /\ RejudgeDone
  /\ ~cmd.flag
  /\ \E m \in ModelNames, p \in Pids :
       /\ WentThrough(m)
       /\ FailedBefore(m, p)
       /\ JudgedAgain(m, p)
       /\ Get(latest_run(disk[m], p), "judge_score") # None

\* A rejudge returned after a judge call that gave no score.
C35_WitnessFailure ==
  /\ RejudgeDone
  /\ FailedJudgeCalls # {}

\* A mapping with at least one metric, all of them null.
AllNull(scores) ==
  /\ scores # <<>>
  /\ \A i \in 1..Len(scores) : scores[i][2] = None
\* The adapter calls of the running command that returned such a mapping.
TotalFailures ==
  { c \in Range(calls.deepeval) : ~c.out.raised /\ AllNull(c.out.deepeval_scores) }
\* The latest stored run of (m, p) holds a mapping of nulls.
AllNullLatest(m, p) ==
  LET run == latest_run(disk0[m], p)
  IN  /\ disk0[m].kind = "doc"
      /\ run.keys # {}
      /\ "error" \notin run.keys
      /\ Get(run, "deepeval_scores") # None
      /\ AllNull(run.deepeval_scores[1])

\* C36: a totally failed secondary scoring is never retried without
\* --force.  When the adapter returns a mapping whose metrics are all null,
\* deepeval and inline eval store that mapping with a null average, and a
\* later deepeval without --force skips the prompt as already scored: no
\* adapter call, no entry, and the latest deepeval_avg stays null.
C36_NeverRetried ==
  (cmd.name \in {"eval", "deepeval"} /\ pc = "exit" /\ result = "done") =>
    /\ \A c \in TotalFailures :
         LET run == latest_run(disk[c.model], c.pid)
         IN  /\ Len(RunsOf(disk[c.model], c.pid))
                  = Len(RunsOf(disk0[c.model], c.pid)) + 1
             /\ Get(run, "deepeval_scores") = Some(c.out.deepeval_scores)
             /\ "deepeval_avg" \in run.keys
             /\ run.deepeval_avg = None
    /\ (cmd.name = "deepeval" /\ ~cmd.flag) =>
         /\ \A m \in ModelNames, p \in Pids :
              (WentThrough(m) /\ AllNullLatest(m, p)) =>
                /\ \A c \in Range(calls.deepeval) : ~(c.model = m /\ c.pid = p)
                /\ RunsOf(disk[m], p) = RunsOf(disk0[m], p)
                /\ Get(latest_run(disk[m], p), "deepeval_avg") = None
         /\ totals.skipped >=
              Cardinality({ mp \in ModelNames \X Pids :
                              WentThrough(mp[1]) /\ AllNullLatest(mp[1], mp[2]) })

\* A deepeval without --force returned over a result set whose latest run
\* of some prompt held the mapping of nulls the command before it stored.
C36_Witness ==
  /\ cmd.name = "deepeval"
  /\ ~cmd.flag
  /\ pc = "exit"
  /\ result = "done"
  /\ \E m \in ModelNames, p \in Pids :
       /\ WentThrough(m)
       /\ AllNullLatest(m, p)
       /\ latest_run(disk0[m], p).timestamp = now - 1

\* The same after an eval whose inline scoring failed on a prompt that had
\* no run before, and a deepeval and an eval that stored such a mapping.
C36_WitnessInline ==
  /\ cmd.name = "deepeval"
  /\ ~cmd.flag
  /\ pc = "exit"
  /\ result = "done"
  /\ \E m \in ModelNames, p \in Pids :
       /\ WentThrough(m)
       /\ AllNullLatest(m, p)
       /\ Len(RunsOf(disk0[m], p)) = 1
C36_WitnessStored ==
  /\ cmd.name = "deepeval"
  /\ pc = "exit"
  /\ result = "done"
  /\ TotalFailures # {}
C36_WitnessStoredInline ==
  /\ cmd.name = "eval"
  /\ pc = "exit"
  /\ result = "done"
  /\ TotalFailures # {}

\* Every entry of every result set, on disk and in the memory of the
\* running command.
AllEntries ==
  UNION { Range(RunsOf(disk[m], p)) : m \in ModelNames, p \in Pids }
  \cup UNION { Range(RunsOf(model_data, p)) : p \in Pids }

\* C37: the shape of entries.  In every reachable result set an entry with
\* a judge_score has a judge_model, and an entry with the error key has
\* empty content, no judge_score and no deepeval_scores.
C37_EntryShape ==
  \A e \in AllEntries :
    /\ Get(e, "judge_score") # None => Get(e, "judge_model") # None
    /\ "error" \in e.keys =>
         /\ e.content = ""
         /\ Get(e, "judge_score") = None
         /\ "deepeval_scores" \notin e.keys

\* A stored history in which an error entry is followed by the entry a
\* rejudge appended with a score.
C37_Witness ==
  \E m \in ModelNames, p \in Pids :
    LET runs == RunsOf(disk[m], p)
    IN  /\ Len(runs) >= 2
        /\ "error" \in runs[Len(runs) - 1].keys
        /\ "error" \notin Last(runs).keys
        /\ Get(Last(runs), "judge_score") # None

\* The step rewrites the persisted result set of m.
Writes(m) == disk'[m] # disk[m]
\* The models a re-scoring command processes: the targeted ones, the
\* configured judge model left out.
ProcessedModels == Range(cmd.models) \ { cmd.cfg.judge }

\* C38: commands write only the result sets they target.  A step of eval
\* rewrites no result set but that of the evaluated model; a step of
\* rejudge or deepeval rewrites only the result set of a model the command
\* processes, and never that of the configured judge model.
C38_FrameStep ==
  \A m \in ModelNames :
    Writes(m) =>
      /\ cmd.name \in {"eval", "rejudge", "deepeval"}
      /\ cmd.name = "eval" => m = cmd.model
      /\ cmd.name \in {"rejudge", "deepeval"} =>
           /\ m \in ProcessedModels
           /\ m # cmd.cfg.judge
C38_Frame == [][C38_FrameStep]_vars

\* A rejudge and a deepeval returned after writing the result set of a
\* while the judge model b had a result set of its own, left as it was.
C38_Witness ==
  /\ cmd.name = "deepeval"
  /\ pc = "exit"
  /\ cmd.cfg.judge = "b"
  /\ disk0["b"].kind = "doc"
  /\ disk["b"] = disk0["b"]
  /\ "a" \in Range(writes)
  /\ disk["a"] # disk0["a"]
C38_WitnessRejudge ==
  /\ cmd.name = "rejudge"
  /\ pc = "exit"
  /\ cmd.cfg.judge = "b"
  /\ disk0["b"].kind = "doc"
  /\ disk["b"] = disk0["b"]
  /\ disk["a"] # disk0["a"]
\* An eval of a returned after judging with b, whose result set stayed as
\* it was.
C38_WitnessEval ==
  /\ cmd.name = "eval"
  /\ pc = "exit"
  /\ cmd.model = "a"
  /\ calls.judge # <<>>
  /\ disk0["b"].kind = "doc"
  /\ disk["b"] = disk0["b"]
  /\ disk["a"] # disk0["a"]

\* The leaderboards the two aggregators compute for the models, prompts
\* and weights of the running command.
BoardOfCompare ==
  CompareBoard(disk, Reported, PromptIds(cmd.file), cmd.weights)
BoardOfStats == StatsBoard(disk, Reported, cmd.file, cmd.weights)
BoardNames(board) == [i \in 1..Len(board) |-> board[i].name]
RowOf(board, m) == CHOOSE row \in Range(board) : row.name = m
\* Two composites are equal up to the rounding of the fourth decimal.
SameComposite(x, y) ==
  /\ (x = None) = (y = None)
  /\ x # None => Abs(x[1] - y[1]) <= 1

\* C39: the two aggregators agree.  For the same result sets, prompts and
\* weights, compare and compute_stats give every model the same scored
\* count, the same flagged count and the same composite up to rounding,
\* and rank the models in the same order.
C39_Agree ==
  (Aggregating /\ pc = "exit" /\ report # None) =>
    /\ \A i \in 1..Len(Reported) :
         LET c == RowOf(BoardOfCompare, Reported[i])
             d == RowOf(BoardOfStats, Reported[i])
         IN  /\ c.scored = d.scored
             /\ c.flagged = d.flagged
             /\ SameComposite(c.composite, d.composite)
    /\ BoardNames(BoardOfCompare) = BoardNames(BoardOfStats)

\* What holds: the scored counts, the composites up to rounding, and the
\* flagged counts of the models without an errored latest run agree.
C39_AgreeButFlagged ==
  (Aggregating /\ pc = "exit" /\ report # None) =>
    \A i \in 1..Len(Reported) :
      LET c == RowOf(BoardOfCompare, Reported[i])
          d == RowOf(BoardOfStats, Reported[i])
      IN  /\ c.scored = d.scored
          /\ SameComposite(c.composite, d.composite)
          /\ d.errors = 0 => c.flagged = d.flagged
          /\ c.flagged = d.flagged + d.errors
\* The rank orders agree.
C39_SameOrder ==
  (Aggregating /\ pc = "exit" /\ report # None) =>
    BoardNames(BoardOfCompare) = BoardNames(BoardOfStats)

\* An aggregation over two models with judge scores and secondary averages.
C39_WitnessAgree ==
  /\ Aggregating
  /\ pc = "exit"
  /\ report # None
  /\ Len(Reported) = 2
  /\ \A i \in 1..2 :
       LET d == RowOf(BoardOfStats, Reported[i])
       IN  d.scored > 0 /\ d.deepeval_avg # None /\ d.flagged > 0

\* The number of entries the finished command appended to the histories.
RECURSIVE SumOver(_, _)
SumOver(f, S) ==
  IF S = {} THEN 0
  ELSE LET x == CHOOSE y \in S : TRUE
       IN  f[x] + SumOver(f, S \ {x})
AppendedEntries ==
  SumOver([mp \in ModelNames \X Pids |->
             Len(RunsOf(disk[mp[1]], mp[2])) - Len(RunsOf(disk0[mp[1]], mp[2]))],
          ModelNames \X Pids)
\* The judge was invoked for (m, p): the candidate is in judged or in errors.
JudgeInvoked(m, p) == \E c \in Range(calls.judge) : c.model = m /\ c.pid = p
\* The candidates rejudge counted as skipped if no errored candidate is.
SkippedUnerrored ==
  { mp \in ModelNames \X Pids :
      /\ WentThrough(mp[1])
      /\ mp[2] \in Candidates(mp[1])
      /\ "error" \notin latest_run(disk0[mp[1]], mp[2]).keys
      /\ RejudgeSkips(latest_run(disk0[mp[1]], mp[2]), cmd.flag, cmd.cfg.judge) }

\* C40: the re-scoring counters account for the work done.  At the end of
\* rejudge, judged + errors is the number of judge invocations and the
\* number of appended entries is the number of invocations that returned;
\* a candidate whose latest run has the error key, or whose prompt was
\* looked up and not found, is in none of judged, skipped and errors.
C40_Counters ==
  RejudgeDone =>
    /\ totals.done + totals.errors = Len(calls.judge)
    /\ AppendedEntries = Len(calls.judge)
    /\ totals.skipped = Cardinality(SkippedUnerrored)
    /\ \A m \in ModelNames, p \in Pids :
         (/\ WentThrough(m)
          /\ p \in Candidates(m)
          /\ \/ "error" \in latest_run(disk0[m], p).keys
             \/ ~InEvalSet(p)) => ~JudgeInvoked(m, p)

\* What holds: the same with the errored candidates taken to be those with
\* a non-empty error message.
C40_CountersMessage ==
  RejudgeDone =>
    /\ totals.done + totals.errors = Len(calls.judge)
    /\ AppendedEntries = Len(calls.judge)
    /\ totals.skipped = Cardinality(SkippedUnerrored)
    /\ \A m \in ModelNames, p \in Pids :
         (/\ WentThrough(m)
          /\ p \in Candidates(m)
          /\ \/ TruthyStr(Get(latest_run(disk0[m], p), "error"))
             \/ ~InEvalSet(p)) => ~JudgeInvoked(m, p)

\* A rejudge returned after one judge call, over result sets holding an
\* errored latest run with a message and a prompt that is not in the eval
\* set.
C40_WitnessMessage ==
  /\ RejudgeDone
  /\ Len(calls.judge) = 1
  /\ \E m \in ModelNames, p \in Pids :
       /\ WentThrough(m)
       /\ p \in Candidates(m)
       /\ TruthyStr(Get(latest_run(disk0[m], p), "error"))
  /\ \E m \in ModelNames, p \in Pids :
       /\ WentThrough(m)
       /\ p \in Selected(m)
       /\ ~InEvalSet(p)

====
